---- MODULE Spec2Model ----
(***************************************************************************)
(* LogoGen: the POST /api/generate pipeline (route files routes/apiRoutes  *)
(* in their two database-logging versions), the services it calls and the  *)
(* JSON-file record store.                                                  *)
(*                                                                         *)
(* Texts (prompts, messages) are sequences of strings so that trimming,    *)
(* wrapping and concatenation are computed, not assumed.  An optional      *)
(* JavaScript value is <<>> (undefined/null) or <<v>>.                     *)
(***************************************************************************)
EXTENDS Integers, Sequences, FiniteSets, TLC

VARIABLES
    config,        \* the settings read at boot (ConfigService) and the deployed route file
    req,           \* per request: position in the handler, inputs, locals, response
    timers,        \* DatabaseService.performanceTimer (operation ids)
    sessionCache,  \* DatabaseService.sessionCache (session keys)
    store,         \* the record files under data/database/<model>/
    files,         \* the artifact files under public/generated (path -> byte size)
    env,           \* process.env as the ConfigService reads it at boot
    boot,          \* the booting process: its phase, the configuration built, its log writes
    fnCall,        \* one call of a service function: its name, arguments and result
    disk,          \* the file system the FileService works on, with its clock
    db             \* a MockDatabase instance: record files, cache, id counter

vars == <<config, req, timers, sessionCache, store, files, env, boot, fnCall, disk, db>>

\* the components a specification does not exercise stay as they are
pipelineVars == <<config, req, timers, sessionCache, store, files>>

----------------------------------------------------------------------------
(* Bounds of the model                                                     *)

NumReqs == 2            \* requests in one behaviour (they may overlap)
MaxClock == 1           \* Date.now() ranges over 0..MaxClock (milliseconds)
MaxProcessedSize == 1   \* a processed PNG has 1..MaxProcessedSize bytes

(* Settings (scaled): config.imageConfig                                   *)
MaxFileSize == 1
LogoSize == 1024
IconSize == 64

Reqs == 1..NumReqs

Nothing == <<>>
Just(x) == <<x>>
IsJust(m) == m # <<>>
Val(m) == m[1]

----------------------------------------------------------------------------
(* Texts                                                                   *)

Space == " "

RECURSIVE TrimStart(_)
TrimStart(s) == IF s # <<>> /\ Head(s) = Space THEN TrimStart(Tail(s)) ELSE s

RECURSIVE TrimEnd(_)
TrimEnd(s) ==
    IF s # <<>> /\ s[Len(s)] = Space THEN TrimEnd(SubSeq(s, 1, Len(s) - 1)) ELSE s

\* String.prototype.trim
Trim(s) == TrimEnd(TrimStart(s))

\* String.prototype.toLowerCase, character by character (ASCII letters)
UpperCase ==
    << "A","B","C","D","E","F","G","H","I","J","K","L","M",
       "N","O","P","Q","R","S","T","U","V","W","X","Y","Z" >>
LowerCase ==
    << "a","b","c","d","e","f","g","h","i","j","k","l","m",
       "n","o","p","q","r","s","t","u","v","w","x","y","z" >>

LowerChar(c) ==
    IF \E i \in DOMAIN UpperCase : UpperCase[i] = c
    THEN LowerCase[CHOOSE i \in DOMAIN UpperCase : UpperCase[i] = c]
    ELSE c

ToLower(s) == [i \in 1..Len(s) |-> LowerChar(s[i])]

\* String.prototype.includes
Includes(s, pat) ==
    \E i \in 0..(Len(s) - Len(pat)) : SubSeq(s, i + 1, i + Len(pat)) = pat

----------------------------------------------------------------------------
(* Request bodies                                                          *)

Undefined == "undefined"

PromptInputs ==
    { Nothing,                    \* no prompt field
      Just(<<>>),                 \* ""
      Just(<<Space>>),            \* " "
      Just(<<Space, "a">>) }      \* " a"

\* absent (the default 'logo' applies), a valid kind, an invalid kind
ImageTypeInputs == { Undefined, "icon", "banner" }

\* enhancePrompt as sent: absent, the boolean false, the string 'false'
EnhanceInputs == { Undefined, "bool:false", "str:false" }

\* req.body is undefined when no body was parsed (express 5)
NoBody == [parsed |-> FALSE, prompt |-> Nothing, imageType |-> Undefined,
           enhancePrompt |-> Undefined]

Bodies ==
    { NoBody } \cup
    [parsed : {TRUE}, prompt : PromptInputs, imageType : ImageTypeInputs,
     enhancePrompt : EnhanceInputs]

\* the plain request: a prompt, the default kind, no enhancement asked for
PlainBody == [parsed |-> TRUE, prompt |-> Just(<<Space, "a">>), imageType |-> Undefined,
              enhancePrompt |-> "bool:false"]

\* the first request of a behaviour ranges over every body; the requests that
\* overlap or follow it are plain ones
BodiesOf(r) == IF r = 1 THEN Bodies ELSE { PlainBody }

\* !prompt || !prompt.trim()
PromptRejected(p) == ~IsJust(p) \/ Val(p) = <<>> \/ Trim(Val(p)) = <<>>

\* const { imageType = 'logo' } = req.body
ImageTypeOf(b) == IF b.imageType = Undefined THEN "logo" ELSE b.imageType

\* enhancePromptFlag !== false
EnhanceRequested(b) == b.enhancePrompt # "bool:false"

----------------------------------------------------------------------------
(* Configuration                                                           *)

\* The route file deployed: the two database-logging versions of
\* routes/apiRoutes, each with the DatabaseService version whose interface it calls.
RouteFiles == { "timers", "performance" }

Configs ==
    { c \in [ routes : RouteFiles,
              dbEnabled : BOOLEAN,       \* ENABLE_DATABASE_LOGGING === 'true'
              dbInitialized : BOOLEAN,   \* DatabaseService.isInitialized, db connected
              llmEnabled : BOOLEAN,      \* ENABLE_PROMPT_ENHANCEMENT === 'true'
              llmApiKey : BOOLEAN,       \* llmConfig.apiKey is set
              production : BOOLEAN ] :   \* NODE_ENV === 'production'
        \* initialize() of the "performance" service connects only when enabled
        /\ (c.routes = "performance" /\ c.dbInitialized) => c.dbEnabled
        \* the "timers" service never reads the switch
        /\ c.routes = "timers" => c.dbEnabled = c.dbInitialized
        \* validateRequiredConfig: enhancement enabled needs a usable key
        /\ c.llmEnabled => c.llmApiKey
        \* the "timers" route file asks isEnhancementEnabled() only: a key without the
        \* switch is considered under the "performance" one
        /\ (c.routes = "timers" /\ c.llmApiKey) => c.llmEnabled
        \* only the express error handler reads NODE_ENV; the production deployment
        \* considered is the "performance" one with logging and enhancement on
        /\ c.production => c.routes = "performance" /\ c.dbInitialized /\ c.llmEnabled }

\* logTransactions / logSystemEvents: LOG_* === 'true' || ENABLE_DATABASE_LOGGING === 'true'
\* (LOG_* unset)
LogTransactions(c) == FALSE \/ c.dbEnabled
LogSystemEvents(c) == FALSE \/ c.dbEnabled

\* DatabaseService.isEnabled ("performance" version)
IsEnabled(c) == c.dbEnabled /\ c.dbInitialized

\* PromptEnhancementService.isEnhancementEnabled
IsEnhancementEnabled(c) == c.llmEnabled /\ c.llmApiKey

----------------------------------------------------------------------------
(* Record store (MockDatabase)                                             *)

\* the directories connect() creates
ModelDirs ==
    { "ImageGenerationTransaction", "ApiRequestLog", "SystemEventLog",
      "UserSession", "PerformanceMetrics", "ConfigurationChangeLog" }

\* create(model, data): fs.writeFile into <dataDir>/<model>/<id>.json
CreateSucceeds(model, ok) == model \in ModelDirs /\ ok

Create(st, model, rec, ok) ==
    IF CreateSucceeds(model, ok) THEN st \cup {[rec EXCEPT !.model = model]} ELSE st

----------------------------------------------------------------------------
(* Image generation client                                                 *)

GenOutcomes ==
    { [t |-> "ok", status |-> 200, detail |-> Nothing, url |-> Just("https://img/1")],
      [t |-> "ok", status |-> 200, detail |-> Nothing, url |-> Nothing],
      [t |-> "network", status |-> 0, detail |-> Nothing, url |-> Nothing] } \cup
    { [t |-> "http", status |-> s, detail |-> Nothing, url |-> Nothing] :
          s \in {403, 429} } \cup
    { [t |-> "http", status |-> s, detail |-> Just("upstream detail"), url |-> Nothing] :
          s \in {401, 500} }

\* error.message of the error axios (or the format check) raised
AxiosMessage(o) ==
    CASE o.t = "http" -> "Request failed with status code " \o ToString(o.status)
      [] OTHER -> "timeout of 60000ms exceeded"

InvalidKeyMsg == <<"Invalid API key. Please check your API_KEY in the .env file.">>
RateLimitMsg == <<"Rate limit exceeded. Please try again later.">>
ForbiddenMsg == <<"Access forbidden. Please check your API permissions.">>
GenericGenMsg(detail) == <<"Failed to generate image: ", detail>>

\* a generateImage whose catch wraps every error the same way
GenerateImageGeneric(o) ==
    IF o.t = "ok"
    THEN [ok |-> TRUE, url |-> o.url, error |-> <<>>]
    ELSE [ok |-> FALSE, url |-> Nothing,
          error |-> GenericGenMsg(IF o.t = "http" /\ IsJust(o.detail)
                                  THEN Val(o.detail) ELSE AxiosMessage(o))]

\* generateImage: the URL of the first result, or the error it throws
GenerateImage(o) ==
    IF o.t = "ok"
    THEN [ok |-> TRUE, url |-> o.url, error |-> <<>>]
    ELSE [ok |-> FALSE, url |-> Nothing,
          error |->
            IF o.t = "http" /\ o.status = 401 THEN InvalidKeyMsg
            ELSE IF o.t = "http" /\ o.status = 429 THEN RateLimitMsg
            ELSE IF o.t = "http" /\ o.status = 403 THEN ForbiddenMsg
            ELSE GenericGenMsg(IF o.t = "http" /\ IsJust(o.detail)
                               THEN Val(o.detail) ELSE AxiosMessage(o))]

CreateFinalPrompt(enhancedPrompt, imageType) ==
    IF imageType = "logo"
    THEN <<"Professional logo design: ">> \o enhancedPrompt \o
         <<". Clean, modern, suitable for branding, high quality, vector-style">>
    ELSE <<"Simple icon design: ">> \o enhancedPrompt \o
         <<". Minimalist, clear, suitable for favicon or app icon, clean lines">>

ValidateImageType(imageType) == imageType \in {"logo", "icon"}

----------------------------------------------------------------------------
(* Prompt enhancement client                                               *)

GoodText == <<"b", "o", "l", "d", " ", "a", " ", "m", "a", "r", "k">>
ShortText == <<"a", "b">>
RefusalText == <<"I", " ", "c", "a", "n", "n", "o", "t", " ", "d", "o">>

Completions ==
    { GoodText, <<Space>> \o GoodText \o <<Space>>, ShortText, RefusalText,
      <<"A">>, <<>> }

LlmOutcomes ==
    { [t |-> "network", text |-> <<>>],
      [t |-> "http", text |-> <<>>],
      [t |-> "nochoices", text |-> <<>>] } \cup
    { [t |-> "text", text |-> c] : c \in Completions }

FailurePatterns ==
    { <<"e","n","h","a","n","c","e"," ","t","h","i","s"," ","d","e","s","i","g","n"," ",
        "p","r","o","m","p","t">>,
      <<"e","n","h","a","n","c","e","d"," ","v","e","r","s","i","o","n",":">>,
      <<"h","e","r","e"," ","i","s"," ","t","h","e"," ","e","n","h","a","n","c","e","d">>,
      <<"i"," ","c","a","n","n","o","t">>,
      <<"i"," ","c","a","n","'","t">>,
      <<"a","s"," ","a","n"," ","a","i">> }

MinEnhancedLength == 10

\* a quality gate that compares the two prompts as they are written
IsValidEnhancedPromptExact(enhancedPrompt, originalPrompt) ==
    /\ ~(enhancedPrompt = <<>> \/ Len(enhancedPrompt) < 10)
    /\ enhancedPrompt # originalPrompt
    /\ \A pat \in FailurePatterns : ~Includes(ToLower(enhancedPrompt), pat)

IsValidEnhancedPrompt(enhancedPrompt, originalPrompt) ==
    /\ ~(enhancedPrompt = <<>> \/ Len(enhancedPrompt) < MinEnhancedLength)
    /\ ToLower(enhancedPrompt) # ToLower(originalPrompt)
    /\ \A pat \in FailurePatterns : ~Includes(ToLower(enhancedPrompt), pat)

\* an enhancePrompt that looks at the key only
EnhanceSkipsCallKeyOnly(c) == ~c.llmApiKey

\* enhancePrompt returns before any request is made
EnhanceSkipsCall(c) == ~c.llmEnabled \/ ~c.llmApiKey

\* an enhancePrompt that returns whatever text it got, none included
EnhanceResultNoFallback(originalPrompt, o) ==
    IF o.t = "text" /\ IsValidEnhancedPrompt(Trim(o.text), originalPrompt)
    THEN Trim(o.text) ELSE o.text

\* enhancePrompt once the completions call has settled with outcome o
EnhanceResult(originalPrompt, o) ==
    IF o.t = "text" /\ o.text # <<>>
    THEN IF IsValidEnhancedPrompt(Trim(o.text), originalPrompt)
         THEN Trim(o.text) ELSE originalPrompt
    ELSE originalPrompt

----------------------------------------------------------------------------
(* File/storage helper                                                     *)

Letters ==
    { "a","b","c","d","e","f","g","h","i","j","k","l","m","n","o","p","q","r","s","t",
      "u","v","w","x","y","z","A","B","C","D","E","F","G","H","I","J","K","L","M","N",
      "O","P","Q","R","S","T","U","V","W","X","Y","Z" }
Digits == { "0","1","2","3","4","5","6","7","8","9" }
Whitespace == { " ", "\t", "\n" }

MaxSlugLength == 50

\* a filter that lets every character through
StripNothing(s) == s

\* .replace(/[^a-zA-Z0-9\s]/g, '')
StripSpecial(s) == SelectSeq(s, LAMBDA c : c \in Letters \cup Digits \cup Whitespace)

\* .replace(/\s+/g, '_')
RECURSIVE CollapseWhitespace(_)
CollapseWhitespace(s) ==
    IF s = <<>> THEN <<>>
    ELSE IF Head(s) \in Whitespace
         THEN IF Len(s) > 1 /\ s[2] \in Whitespace
              THEN CollapseWhitespace(Tail(s))
              ELSE <<"_">> \o CollapseWhitespace(Tail(s))
         ELSE <<Head(s)>> \o CollapseWhitespace(Tail(s))

\* .substring(0, 50)
Truncate(s) == SubSeq(s, 1, IF Len(s) < MaxSlugLength THEN Len(s) ELSE MaxSlugLength)

\* A Date.now() value is wider than the integers at hand: it is kept as its limbs in
\* base 10^6, most significant first (<<1700000, 42>> is 1700000000042).
\* one limb below the first, written with its leading zeros
PadLimb(n) ==
    LET t == ToString(n)
        zeros == [i \in 1..(6 - Len(t)) |-> "0"]
    IN  zeros \o <<t>>

\* `${timestamp}`: Number.prototype.toString of a non-negative integer
RECURSIVE LowerLimbs(_)
LowerLimbs(limbs) ==
    IF limbs = <<>> THEN <<>> ELSE PadLimb(Head(limbs)) \o LowerLimbs(Tail(limbs))

NumberText(timestamp) == <<ToString(Head(timestamp))>> \o LowerLimbs(Tail(timestamp))

GenerateSafeFilename(prompt, imageType, timestamp, isOriginal) ==
    <<imageType, "_">> \o Truncate(CollapseWhitespace(StripSpecial(prompt))) \o
    <<"_">> \o NumberText(timestamp) \o
    (IF isOriginal THEN <<"_original">> ELSE <<>>) \o <<".png">>

GetFilePaths(filename, originalFilename) ==
    [ processedPath |-> <<"public/generated/">> \o filename,
      originalPath |-> <<"public/generated/original/">> \o originalFilename,
      publicProcessedPath |-> <<"/generated/">> \o filename,
      publicOriginalPath |-> <<"/generated/original/">> \o originalFilename ]

\* a saveFile that opens the file and writes nothing into it
SaveFileEmpty(fs, filepath, size, ok) ==
    IF ok
    THEN [p \in DOMAIN fs \cup {filepath} |-> IF p = filepath THEN 0 ELSE fs[p]]
    ELSE fs

\* saveFile: fs.writeFile(filepath, buffer), the error rethrown
SaveFile(fs, filepath, size, ok) ==
    IF ok
    THEN [p \in DOMAIN fs \cup {filepath} |-> IF p = filepath THEN size ELSE fs[p]]
    ELSE fs

DiskErrorMsg == <<"ENOSPC: no space left on device, write">>

----------------------------------------------------------------------------
(* Image processing pipeline                                               *)

DownloadOutcomes ==
    { [t |-> "network", size |-> 0] } \cup
    { [t |-> "maxContentLength", size |-> MaxFileSize + 1] } \cup
    { [t |-> "ok", size |-> n] : n \in 0..(MaxFileSize + 1) }

\* a downloadImage that relies on the transport's limit alone
DownloadImageUnchecked(url, o) ==
    IF ~IsJust(url)
    THEN [ok |-> FALSE, size |-> 0,
          error |-> <<"Failed to download image: ", "Invalid URL">>]
    ELSE IF o.t = "network"
    THEN [ok |-> FALSE, size |-> 0,
          error |-> <<"Failed to download image: ", "timeout of 45000ms exceeded">>]
    ELSE IF o.t = "maxContentLength"
    THEN [ok |-> FALSE, size |-> 0,
          error |-> <<"Failed to download image: ",
                      "maxContentLength size of " \o ToString(MaxFileSize) \o " exceeded">>]
    ELSE [ok |-> TRUE, size |-> o.size, error |-> <<>>]

\* downloadImage: the buffer (its length), or the error it throws
DownloadImage(url, o) ==
    IF ~IsJust(url)
    THEN [ok |-> FALSE, size |-> 0,
          error |-> <<"Failed to download image: ", "Invalid URL">>]
    ELSE IF o.t = "network"
    THEN [ok |-> FALSE, size |-> 0,
          error |-> <<"Failed to download image: ", "timeout of 45000ms exceeded">>]
    ELSE IF o.t = "maxContentLength"
    THEN [ok |-> FALSE, size |-> 0,
          error |-> <<"Failed to download image: ",
                      "maxContentLength size of " \o ToString(MaxFileSize) \o " exceeded">>]
    ELSE IF o.size > MaxFileSize
    THEN [ok |-> FALSE, size |-> 0,
          error |-> <<"Failed to download image: ",
                      "Image too large: " \o ToString(o.size) \o " bytes (max: "
                          \o ToString(MaxFileSize) \o ")">>]
    ELSE [ok |-> TRUE, size |-> o.size, error |-> <<>>]

\* what sharp finds in the downloaded bytes: nothing it can decode, or an image
SourceDims == { <<4, 2>> }

SharpOutcomes ==
    { [decodes |-> FALSE, dims |-> <<0, 0>>, outSize |-> 0] } \cup
    { [decodes |-> TRUE, dims |-> d, outSize |-> n] :
          d \in SourceDims, n \in 1..MaxProcessedSize }

Larger(a, b) == IF a > b THEN a ELSE b

\* processImage: resize (icon: cover, logo: inside) and re-encode as PNG
ProcessImage(bufferSize, imageType, o) ==
    IF bufferSize = 0 \/ ~o.decodes
    THEN [ok |-> FALSE, size |-> 0, width |-> 0, height |-> 0,
          error |-> <<"Failed to process image: ",
                      IF bufferSize = 0 THEN "Input Buffer is empty"
                      ELSE "Input buffer contains unsupported image format">>]
    ELSE IF imageType = "icon"
    THEN [ok |-> TRUE, size |-> o.outSize, width |-> IconSize, height |-> IconSize,
          error |-> <<>>]
    ELSE [ok |-> TRUE, size |-> o.outSize,
          width |-> (o.dims[1] * LogoSize) \div Larger(o.dims[1], o.dims[2]),
          height |-> (o.dims[2] * LogoSize) \div Larger(o.dims[1], o.dims[2]),
          error |-> <<>>]

\* getImageDimensions: read back from the processed bytes, else the logo size
GetImageDimensions(processed, metadataOk) ==
    IF metadataOk
    THEN [width |-> processed.width, height |-> processed.height]
    ELSE [width |-> LogoSize, height |-> LogoSize]

\* downloadAndProcessImage wraps whatever a step threw
WrapProcessingError(msg) == <<"Failed to process image: ">> \o msg

----------------------------------------------------------------------------
(* Requests                                                                *)

Clients == { "10.0.0.1-agent" }   \* `${req.ip}-${user-agent}`

NoProcessed ==
    [ filename |-> <<>>, path |-> <<>>, originalFilename |-> <<>>, originalPath |-> <<>>,
      processedPath |-> <<>>, diskOriginalPath |-> <<>>,
      timestamp |-> 0, size |-> 0, width |-> 0, height |-> 0, dimensions |-> [width |-> 0, height |-> 0] ]

\* an external call and its outcome: n is the HTTP status (generate) or the byte
\* length of the remote image (download)
Settled(call, outcome, n) == [call |-> call, outcome |-> outcome, n |-> n]
NoCall == Settled("none", "none", 0)

IdleReq ==
    [ pc |-> "idle",
      body |-> NoBody,
      client |-> "10.0.0.1-agent",
      originalPrompt |-> <<>>,       \* prompt.trim()
      enhancedPrompt |-> Nothing,
      finalPrompt |-> Nothing,
      imageUrl |-> Nothing,
      buffer |-> 0,                  \* imageBuffer.length
      image |-> NoProcessed,         \* locals and result of downloadAndProcessImage
      sessionPending |-> FALSE,      \* createSessionRecord's write is in flight
      writeFault |-> FALSE,          \* the disk refused a record write of this request
      error |-> <<>>,                \* message of the error the pipeline threw
      resp |-> Nothing,              \* what was sent: [status, body]
      calls |-> <<>>,                \* the external calls, as they start and settle
      settled |-> NoCall,            \* the external call that settled last, and how
      wrote |-> {} ]                 \* artifact paths this request wrote

\* res.status(status).json(body): the handler is finished; where the request-logging
\* middleware has something to do, its 'finish' callback is still to run
Respond(rq, c, status, body) ==
    [rq EXCEPT !.resp = Just([status |-> status, body |-> body]),
               !.pc = IF c.routes = "timers" THEN "responded" ELSE "done"]

Failure(msg) == [success |-> FALSE, error |-> msg]

\* the state a stretch of a handler works on; thrown is the error an awaited call
\* rejected with
World(r) ==
    [ rq |-> req[r], timers |-> timers, sessionCache |-> sessionCache,
      store |-> store, files |-> files, thrown |-> Nothing ]

----------------------------------------------------------------------------
(* "timers" route file: startTimer/endTimer, logImageGeneration(requestData,*)
(* responseData, performanceData, errorData)                               *)

DestructureMsg ==
    <<"Cannot destructure property 'prompt' of 'req.body' as it is undefined.">>

SessionId(key) == <<"session", key>>

SessionRecord(key) ==
    [ model |-> "UserSession", id |-> SessionId(key),
      data |-> [totalRequests |-> 0, successfulGenerations |-> 0,
                failedGenerations |-> 0, totalImagesGenerated |-> 0] ]

\* the failed-transaction and successful-transaction records
TransactionRecord(r, rq, success) ==
    [ model |-> "ImageGenerationTransaction", id |-> <<"transaction", r>>,
      data |-> [ success |-> success,
                 errorMessage |-> IF success THEN Nothing ELSE Just(rq.error),
                 status |-> IF success THEN "completed" ELSE "failed",
                 \* the success path logs the trimmed prompt, the catch req.body.prompt
                 originalPrompt |->
                     IF success THEN rq.originalPrompt ELSE Val(rq.body.prompt),
                 imageType |-> ImageTypeOf(rq.body),
                 processedFilename |->
                     IF success THEN Just(rq.image.filename) ELSE Nothing ] ]

\* logImageGeneration up to its first await: getOrCreateSession, then db.create
\* (a null db throws at once and the catch swallows it)
TimersLogStart(w, c) ==
    LET key == w.rq.client
        isNew == key \notin w.sessionCache
    IN  [w EXCEPT
           !.sessionCache = @ \cup {key},
           !.rq = [@ EXCEPT
                     !.sessionPending = isNew /\ c.dbInitialized,
                     !.pc = IF c.dbInitialized THEN "logging" ELSE "responding"]]

\* updateSessionStats: findById, then update (read-merge-write)
UpdateSessionStats(st, key, success, ok) ==
    IF \E s \in st : s.model = "UserSession" /\ s.id = SessionId(key)
    THEN LET s == CHOOSE x \in st : x.model = "UserSession" /\ x.id = SessionId(key)
             d == s.data
             u == [d EXCEPT
                     !.totalRequests = @ + 1,
                     !.successfulGenerations = IF success THEN @ + 1 ELSE @,
                     !.totalImagesGenerated = IF success THEN @ + 1 ELSE @,
                     !.failedGenerations = IF success THEN @ ELSE @ + 1]
         IN  IF ok THEN (st \ {s}) \cup {[s EXCEPT !.data = u]} ELSE st
    ELSE st

\* a record write the disk refused
DiskRefused(model, ok) == model \in ModelDirs /\ ~ok

\* the try block of logImageGeneration once the pending writes have settled
LogImageGenerationWrites(w, r, success, ok) ==
    LET st1 == IF w.rq.sessionPending
               THEN Create(w.store, "UserSession", SessionRecord(w.rq.client), ok)
               ELSE w.store
        st2 == Create(st1, "ImageGenerationTransaction",
                      TransactionRecord(r, w.rq, success), ok)
        st3 == IF CreateSucceeds("ImageGenerationTransaction", ok)
               THEN UpdateSessionStats(st2, w.rq.client, success, ok)
               ELSE st2
    IN  [w EXCEPT !.store = st3,
                  !.rq = [@ EXCEPT !.sessionPending = FALSE,
                                   !.writeFault = @ \/ DiskRefused("ImageGenerationTransaction", ok)],
                  !.thrown = IF CreateSucceeds("ImageGenerationTransaction", ok)
                             THEN Nothing ELSE Just(DiskErrorMsg)]

\* logImageGeneration without its catch: a refused write reaches the route
TimersLogRethrows(w, r, success, ok) == LogImageGenerationWrites(w, r, success, ok)

\* logImageGeneration: its catch logs the error to the console and returns
TimersLogSettle(w, r, success, ok) ==
    [LogImageGenerationWrites(w, r, success, ok) EXCEPT !.thrown = Nothing]

RequestLogRecord(r, rq) ==
    [ model |-> "ApiRequestLog", id |-> <<"request", r>>,
      data |-> [endpoint |-> "/api/generate", statusCode |-> Val(rq.resp).status] ]

\* the request-logging middleware's 'finish' callback: logApiRequest(req, res, duration)
LogApiRequest(w, r, c, ok) ==
    LET key == w.rq.client
        isNew == key \notin w.sessionCache
        st1 == IF isNew /\ c.dbInitialized
               THEN Create(w.store, "UserSession", SessionRecord(key), ok)
               ELSE w.store
        st2 == IF c.dbInitialized
               THEN Create(st1, "ApiRequestLog", RequestLogRecord(r, w.rq), ok)
               ELSE st1
    IN  [w EXCEPT !.sessionCache = @ \cup {key},
                  !.store = st2,
                  !.rq = [@ EXCEPT !.writeFault =
                                      @ \/ (c.dbInitialized /\ DiskRefused("ApiRequestLog", ok)),
                                   !.pc = "done"]]

\* res.json(responsePayload) of the success path (the wall-clock fields left out)
TimersSuccessBody(rq, c) ==
    [ success |-> TRUE,
      data |-> [ filename |-> rq.image.filename,
                 path |-> rq.image.path,
                 originalFilename |-> rq.image.originalFilename,
                 originalPath |-> rq.image.originalPath,
                 size |-> rq.image.size,
                 dimensions |-> rq.image.dimensions,
                 originalPrompt |-> rq.originalPrompt,
                 enhancedPrompt |->
                     IF IsEnhancementEnabled(c) THEN rq.enhancedPrompt ELSE Nothing,
                 finalPrompt |-> rq.finalPrompt,
                 imageType |-> ImageTypeOf(rq.body) ] ]

\* the catch block: endTimer, log the failed transaction, answer 500
TimersCatch(w, r, c, msg) ==
    LET w1 == [w EXCEPT !.timers = @ \ {r}, !.rq = [@ EXCEPT !.error = msg]]
    IN  IF ~w.rq.body.parsed
        THEN \* building requestData reads req.body.prompt and throws; the inner
             \* catch swallows it
             [w1 EXCEPT !.rq = Respond(@, c, 500, Failure(msg))]
        ELSE LET w2 == TimersLogStart(w1, c)
             IN  IF w2.rq.pc = "responding"
                 THEN [w2 EXCEPT !.rq = Respond(@, c, 500, Failure(msg))]
                 ELSE [w2 EXCEPT !.rq = [@ EXCEPT !.pc = "failLogging"]]

\* after downloadAndProcessImage: endTimer, log the transaction
TimersSucceed(w, r, c) ==
    LET w1 == [w EXCEPT !.timers = @ \ {r}]
        w2 == TimersLogStart(w1, c)
    IN  IF w2.rq.pc = "responding"
        THEN [w2 EXCEPT !.rq = Respond(@, c, 200, TimersSuccessBody(@, c))]
        ELSE w2

----------------------------------------------------------------------------
(* "performance" route file: startPerformanceTimer/endPerformanceTimer,    *)
(* logImageGeneration(transactionData), logSystemEvent(type, data, error)  *)

\* the catch block reads prompt, declared inside the try block
ReferenceErrorMsg == <<"prompt is not defined">>

\* the express error handler hides the message in production
ErrorHandlerBody(c) ==
    [ success |-> FALSE,
      error |-> IF c.production THEN <<"Internal server error">> ELSE ReferenceErrorMsg ]

EventRecord(r, eventType) ==
    [ model |-> "system_event_logs", id |-> <<eventType, r>>,
      data |-> [eventType |-> eventType] ]

MetricsRecord(r) ==
    [ model |-> "performance_metrics", id |-> <<"metrics", r>>,
      data |-> [operationId |-> r] ]

PerformanceTransaction(r, rq) ==
    [ model |-> "image_generation_transactions", id |-> <<"transaction", r>>,
      data |-> [ success |-> TRUE, errorMessage |-> Nothing, status |-> "completed",
                 originalPrompt |-> Val(rq.body.prompt),
                 imageType |-> ImageTypeOf(rq.body),
                 processedFilename |-> Nothing ] ]

\* res.json of the success path: imageUrl, processedFilename and fileSize are read
\* from fields downloadAndProcessImage does not return
PerformanceSuccessBody(rq) ==
    [ success |-> TRUE,
      imageUrl |-> Nothing,
      processedFilename |-> Nothing,
      originalFilename |-> Just(rq.image.originalFilename),
      prompt |-> rq.finalPrompt,
      originalPrompt |-> rq.body.prompt,
      enhancedPrompt |-> rq.enhancedPrompt,
      enhancePromptDetected |->
          IsJust(rq.enhancedPrompt) /\ rq.enhancedPrompt # rq.body.prompt,
      imageType |-> ImageTypeOf(rq.body),
      fileSize |-> Nothing,
      dimensions |-> rq.image.dimensions ]

\* the catch block throws the ReferenceError before it logs or answers; express
\* hands the rejection to the application's error handler, which logs an
\* application_error event and answers 500
PerformanceCatch(w, r, c, msg) ==
    LET w1 == [w EXCEPT !.rq = [@ EXCEPT !.error = msg]]
    IN  IF IsEnabled(c) /\ LogSystemEvents(c)
        THEN [w1 EXCEPT !.rq = [@ EXCEPT !.pc = "failLogging"]]
        ELSE [w1 EXCEPT !.rq = Respond(@, c, 500, ErrorHandlerBody(c))]

\* after downloadAndProcessImage: endPerformanceTimer(operationId, true), then
\* logImageGeneration
PerformanceSucceed(w, r, c) ==
    LET w1 == [w EXCEPT !.timers = IF IsEnabled(c) THEN @ \ {r} ELSE @]
    IN  IF IsEnabled(c) /\ LogTransactions(c)
        THEN [w1 EXCEPT !.rq = [@ EXCEPT !.pc = "logging"]]
        ELSE [w1 EXCEPT !.rq = Respond(@, c, 200, PerformanceSuccessBody(@))]

\* the writes of logPerformanceMetrics and logImageGeneration settle
PerformanceLogSettle(w, r, ok) ==
    [w EXCEPT !.store =
        Create(Create(@, "performance_metrics", MetricsRecord(r), ok),
               "image_generation_transactions", PerformanceTransaction(r, w.rq), ok)]

----------------------------------------------------------------------------
(* The handler, by route file                                              *)

\* imageGenerationService.generateImage(finalPrompt, imageType) is called
StartGenerate(w, enhanced, final) ==
    [w EXCEPT !.rq = [@ EXCEPT !.enhancedPrompt = enhanced,
                               !.finalPrompt = Just(final),
                               !.calls = Append(@, "generate:start"),
                               !.pc = "generating"]]

\* promptEnhancementService.enhancePrompt reaches axios.post
StartEnhance(w) ==
    [w EXCEPT !.rq = [@ EXCEPT !.calls = Append(@, "enhance:start"),
                               !.pc = "enhancing"]]

\* a catch block that issues the failed image-generation call once more
CatchRetrying(w, r, c, msg) ==
    IF w.rq.settled.call = "generate" /\ Len(w.rq.calls) < 6
    THEN StartGenerate(w, w.rq.enhancedPrompt, Val(w.rq.finalPrompt))
    ELSE IF c.routes = "timers" THEN TimersCatch(w, r, c, msg)
    ELSE PerformanceCatch(w, r, c, msg)

\* an error thrown inside the try block reaches the route's catch block
Catch(w, r, c, msg) ==
    IF c.routes = "timers" THEN TimersCatch(w, r, c, msg)
    ELSE PerformanceCatch(w, r, c, msg)

Succeed(w, r, c) ==
    IF c.routes = "timers" THEN TimersSucceed(w, r, c)
    ELSE PerformanceSucceed(w, r, c)

\* shouldEnhance of the "timers" route file
ShouldEnhance(b, c) ==
    IsEnhancementEnabled(c) /\ b.enhancePrompt \in {Undefined, "bool:true", "str:true"}

\* what the route file does with the prompt enhancePrompt returned
AfterEnhance(w, c, result) ==
    IF c.routes = "timers"
    THEN StartGenerate(w, Just(result),
                       CreateFinalPrompt(result, ImageTypeOf(w.rq.body)))
    ELSE StartGenerate(w, Just(result),
                       IF result # <<>> /\ result # Val(w.rq.body.prompt)
                       THEN result ELSE Val(w.rq.body.prompt))

\* validation and what follows it up to the first await
Validate(w, r, c) ==
    LET b == w.rq.body
        w1 == [w EXCEPT !.timers =
                  IF c.routes = "timers" \/ IsEnabled(c) THEN @ \cup {r} ELSE @]
    IN  IF PromptRejected(b.prompt)
        THEN [w1 EXCEPT !.rq = Respond(@, c, 400, Failure(<<"Prompt is required">>))]
        ELSE IF ~ValidateImageType(ImageTypeOf(b))
        THEN [w1 EXCEPT !.rq = Respond(@, c, 400,
                 Failure(<<"Image type must be either \"logo\" or \"icon\"">>))]
        ELSE LET w2 == [w1 EXCEPT !.rq = [@ EXCEPT !.originalPrompt = Trim(Val(b.prompt))]]
             IN  IF c.routes = "timers"
                 THEN IF ShouldEnhance(b, c)
                      THEN IF EnhanceSkipsCall(c)
                           THEN AfterEnhance(w2, c, w2.rq.originalPrompt)
                           ELSE StartEnhance(w2)
                      ELSE StartGenerate(w2, Just(w2.rq.originalPrompt),
                               CreateFinalPrompt(w2.rq.originalPrompt, ImageTypeOf(b)))
                 ELSE IF EnhanceRequested(b)
                      THEN IF EnhanceSkipsCall(c)
                           THEN AfterEnhance(w2, c, Val(b.prompt))
                           ELSE StartEnhance(w2)
                      ELSE StartGenerate(w2, Nothing, Val(b.prompt))

\* the handler from its entry to its first await
Begin(w, r, c) ==
    IF ~w.rq.body.parsed
    THEN Catch(w, r, c, DestructureMsg)
    ELSE IF c.routes = "performance" /\ IsEnabled(c) /\ LogSystemEvents(c)
    THEN [w EXCEPT !.rq = [@ EXCEPT !.pc = "startLogging"]]
    ELSE Validate(w, r, c)

----------------------------------------------------------------------------
(* Initial state: the application has booted                               *)

BootEvent(eventType) ==
    [ model |-> "SystemEventLog", id |-> <<eventType, 0>>,
      data |-> [eventType |-> eventType] ]

\* connect() logs database_connect; the "timers" service logs its own events into
\* SystemEventLog, the "performance" service into a directory connect() never made
BootRecords(c) ==
    IF ~c.dbInitialized THEN {}
    ELSE IF c.routes = "timers"
    THEN { BootEvent("database_connect"), BootEvent("database_init"),
           BootEvent("app_startup"), BootEvent("server_start") }
    ELSE { BootEvent("database_connect") }

Init ==
    /\ config \in Configs
    /\ req = [r \in Reqs |-> IdleReq]
    /\ timers = {}
    /\ sessionCache = {}
    /\ store = BootRecords(config)
    /\ files = [p \in {} |-> 0]
    /\ env = Nothing /\ boot = Nothing /\ fnCall = Nothing /\ disk = Nothing /\ db = Nothing

Apply(r, w) ==
    /\ req' = [req EXCEPT ![r] = w.rq]
    /\ timers' = w.timers
    /\ sessionCache' = w.sessionCache
    /\ store' = w.store
    /\ files' = w.files
    /\ UNCHANGED <<config, env, boot, fnCall, disk, db>>

----------------------------------------------------------------------------
(* Actions: one per stretch of the handler between two awaits              *)

\* POST /api/generate arrives
Receive(r) ==
    /\ req[r].pc = "idle"
    /\ \A q \in Reqs : q < r => req[q].pc # "idle"     \* requests are numbered as they arrive
    /\ \E b \in BodiesOf(r), cl \in Clients :
         Apply(r, Begin([World(r) EXCEPT !.rq = [@ EXCEPT !.body = b, !.client = cl]],
                        r, config))

\* the image_generation_start event's write settles ("performance" route file)
StartLogged(r) ==
    /\ req[r].pc = "startLogging"
    /\ \E ok \in BOOLEAN :
         Apply(r, Validate([World(r) EXCEPT !.store =
                     Create(@, "system_event_logs",
                            EventRecord(r, "image_generation_start"), ok)],
                   r, config))

\* the prompt handed to enhancePrompt
PromptToEnhance(rq, c) ==
    IF c.routes = "timers" THEN rq.originalPrompt ELSE Val(rq.body.prompt)

\* the completions call settles
EnhanceReturn(r) ==
    /\ req[r].pc = "enhancing"
    /\ \E o \in LlmOutcomes :
         LET given == PromptToEnhance(req[r], config)
             result == EnhanceResult(given, o)
             w == [World(r) EXCEPT !.rq = [@ EXCEPT
                     !.calls = Append(@, "enhance:end"),
                     !.settled = Settled("enhance",
                                    IF o.t # "text" THEN "failed"
                                    ELSE IF result = given THEN "rejected" ELSE "accepted",
                                    0)]]
         IN  Apply(r, AfterEnhance(w, config, result))

\* the image-generation call settles
GenerateReturn(r) ==
    /\ req[r].pc = "generating"
    /\ \E o \in GenOutcomes :
         LET res == GenerateImage(o)
             w == [World(r) EXCEPT !.rq = [@ EXCEPT
                     !.calls = Append(@, "generate:end"),
                     !.settled = Settled("generate", o.t, o.status)]]
         IN  IF res.ok
             THEN \* axios.get(undefined) throws before it sends anything
                  Apply(r, [w EXCEPT !.rq = [@ EXCEPT
                              !.imageUrl = res.url,
                              !.calls = IF IsJust(res.url)
                                        THEN Append(@, "download:start") ELSE @,
                              !.pc = "downloading"]])
             ELSE Apply(r, Catch(w, r, config, res.error))

\* Date.now(): never earlier than a reading already taken
Now == { t \in 0..MaxClock : \A q \in Reqs : req[q].image.timestamp <= t }

\* the download settles; downloadAndProcessImage names the files and starts saving
DownloadReturn(r) ==
    /\ req[r].pc = "downloading"
    /\ \E o \in DownloadOutcomes, now \in Now :
         LET rq == req[r]
             res == DownloadImage(rq.imageUrl, o)
             kind == ImageTypeOf(rq.body)
             originalFilename == GenerateSafeFilename(rq.originalPrompt, kind, <<now>>, TRUE)
             processedFilename == GenerateSafeFilename(rq.originalPrompt, kind, <<now>>, FALSE)
             paths == GetFilePaths(processedFilename, originalFilename)
             w == [World(r) EXCEPT !.rq = [@ EXCEPT
                     !.calls = IF IsJust(rq.imageUrl)
                               THEN Append(@, "download:end") ELSE @,
                     !.settled = IF IsJust(rq.imageUrl)
                                 THEN Settled("download", o.t, o.size)
                                 ELSE @]]
         IN  IF res.ok
             THEN Apply(r, [w EXCEPT !.rq = [@ EXCEPT
                              !.buffer = res.size,
                              !.image = [@ EXCEPT
                                  !.filename = processedFilename,
                                  !.path = paths.publicProcessedPath,
                                  !.originalFilename = originalFilename,
                                  !.originalPath = paths.publicOriginalPath,
                                  !.processedPath = paths.processedPath,
                                  !.diskOriginalPath = paths.originalPath,
                                  !.timestamp = now],
                              !.pc = "savingOriginal"]])
             ELSE Apply(r, Catch(w, r, config, WrapProcessingError(res.error)))

\* the original's write settles
SaveOriginalReturn(r) ==
    /\ req[r].pc = "savingOriginal"
    /\ \E ok \in BOOLEAN :
       LET rq == req[r]
           w == World(r)
       IN  IF ok
           THEN Apply(r, [w EXCEPT
                    !.files = SaveFile(@, rq.image.diskOriginalPath, rq.buffer, ok),
                    !.rq = [@ EXCEPT !.wrote = @ \cup {rq.image.diskOriginalPath},
                                     !.pc = "processing"]])
           ELSE Apply(r, Catch(w, r, config, WrapProcessingError(DiskErrorMsg)))

\* sharp settles
ProcessReturn(r) ==
    /\ req[r].pc = "processing"
    /\ \E o \in SharpOutcomes :
         LET rq == req[r]
             res == ProcessImage(rq.buffer, ImageTypeOf(rq.body), o)
             w == World(r)
         IN  IF res.ok
             THEN Apply(r, [w EXCEPT !.rq = [@ EXCEPT
                              !.image = [@ EXCEPT !.size = res.size,
                                                  !.width = res.width,
                                                  !.height = res.height],
                              !.pc = "savingProcessed"]])
             ELSE Apply(r, Catch(w, r, config, WrapProcessingError(res.error)))

\* the processed file's write settles
SaveProcessedReturn(r) ==
    /\ req[r].pc = "savingProcessed"
    /\ \E ok \in BOOLEAN :
       LET rq == req[r]
           w == World(r)
       IN  IF ok
           THEN Apply(r, [w EXCEPT
                    !.files = SaveFile(@, rq.image.processedPath, rq.image.size, ok),
                    !.rq = [@ EXCEPT !.wrote = @ \cup {rq.image.processedPath},
                                     !.pc = "readingDimensions"]])
           ELSE Apply(r, Catch(w, r, config, WrapProcessingError(DiskErrorMsg)))

\* sharp's metadata settles; downloadAndProcessImage returns to the route
DimensionsReturn(r) ==
    /\ req[r].pc = "readingDimensions"
    /\ \E metadataOk \in BOOLEAN :
         LET w == [World(r) EXCEPT !.rq = [@ EXCEPT
                     !.image = [@ EXCEPT !.dimensions =
                                   GetImageDimensions(@, metadataOk)]]]
         IN  Apply(r, Succeed(w, r, config))

\* the success path's log writes settle; the route answers
LogReturn(r) ==
    /\ req[r].pc = "logging"
    /\ \E ok \in BOOLEAN :
       LET w == World(r)
       IN  IF config.routes = "timers"
           THEN LET w1 == TimersLogSettle(w, r, TRUE, ok)
                IN  IF IsJust(w1.thrown)
                    THEN Apply(r, Catch(w1, r, config, Val(w1.thrown)))
                    ELSE Apply(r, [w1 EXCEPT !.rq =
                                     Respond(@, config, 200, TimersSuccessBody(@, config))])
           ELSE LET w1 == PerformanceLogSettle(w, r, ok)
                IN  Apply(r, [w1 EXCEPT !.rq =
                                 Respond(@, config, 200, PerformanceSuccessBody(@))])

\* the failure path's log write settles; the request is answered
FailLogReturn(r) ==
    /\ req[r].pc = "failLogging"
    /\ \E ok \in BOOLEAN :
       LET w == World(r)
       IN  IF config.routes = "timers"
           THEN LET w1 == TimersLogSettle(w, r, FALSE, ok)
                IN  Apply(r, [w1 EXCEPT !.rq = Respond(@, config, 500, Failure(@.error))])
           ELSE LET w1 == [w EXCEPT !.store =
                              Create(@, "system_event_logs",
                                     EventRecord(r, "application_error"), ok)]
                IN  Apply(r, [w1 EXCEPT !.rq = Respond(@, config, 500, ErrorHandlerBody(config))])

\* the response has been flushed: the request-logging middleware logs the request
FinishLogged(r) ==
    /\ req[r].pc = "responded"
    /\ \E ok \in BOOLEAN : Apply(r, LogApiRequest(World(r), r, config, ok))

Next ==
    \/ \E r \in Reqs : Receive(r)
    \/ \E r \in Reqs : StartLogged(r)
    \/ \E r \in Reqs : EnhanceReturn(r)
    \/ \E r \in Reqs : GenerateReturn(r)
    \/ \E r \in Reqs : DownloadReturn(r)
    \/ \E r \in Reqs : SaveOriginalReturn(r)
    \/ \E r \in Reqs : ProcessReturn(r)
    \/ \E r \in Reqs : SaveProcessedReturn(r)
    \/ \E r \in Reqs : DimensionsReturn(r)
    \/ \E r \in Reqs : LogReturn(r)
    \/ \E r \in Reqs : FailLogReturn(r)
    \/ \E r \in Reqs : FinishLogged(r)

Spec == Init /\ [][Next]_vars

----------------------------------------------------------------------------
(* Properties                                                              *)

Answered(rq) == IsJust(rq.resp)

Status(rq) == Val(rq.resp).status

Body(rq) == Val(rq.resp).body

\* the request passes the route's validation
PassedValidation(rq) ==
    /\ rq.body.parsed
    /\ IsJust(rq.body.prompt)
    /\ Trim(Val(rq.body.prompt)) # <<>>
    /\ ImageTypeOf(rq.body) \in {"logo", "icon"}

\* persistence logging is enabled: record store initialised, transaction logging on
LoggingEnabled == config.dbEnabled /\ config.dbInitialized

TransactionModels == { "ImageGenerationTransaction", "image_generation_transactions" }

TransactionsOf(r) ==
    { x \in store : x.model \in TransactionModels /\ x.id = <<"transaction", r>> }

\* the records written on behalf of request r
RecordsOf(r) == { x \in store : x.model # "UserSession" /\ x.id[2] = r }

\* C1: with persistence logging enabled every generate attempt that passed validation
\* and was answered, in success or in failure, has exactly one stored transaction
\* record (unless the disk refused the write); with persistence logging disabled the
\* record store holds no record at all.
C1_OneTransactionPerAttempt ==
    /\ LoggingEnabled =>
         \A r \in Reqs :
             (req[r].pc = "done" /\ PassedValidation(req[r]) /\ ~req[r].writeFault)
                 => Cardinality(TransactionsOf(r)) = 1
    /\ ~config.dbEnabled => store = {}

\* C2: a request whose prompt is missing, empty or blank, or whose imageType is
\* neither 'logo' nor 'icon', is answered 400 {success: false, error}, no external
\* call is made and no file written for it, and the record store never holds a
\* record of it.
C2_InvalidRequestRejected ==
    \A r \in Reqs :
        (req[r].pc # "idle" /\ ~PassedValidation(req[r])) =>
            /\ RecordsOf(r) = {}
            /\ req[r].calls = <<>>
            /\ req[r].wrote = {}
            /\ Answered(req[r]) =>
                 /\ Status(req[r]) = 400
                 /\ DOMAIN Body(req[r]) = {"success", "error"}
                 /\ Body(req[r]).success = FALSE

\* C3: once validation has passed, a failure of image generation or processing is
\* answered with a 5xx status and the envelope {success: false, error} carrying
\* the failing step's message, the transaction stored for the attempt (logging
\* enabled, the disk willing) has success = false and that message, and no
\* response mixes success with an error.
C3_FailureEnvelope ==
    \A r \in Reqs :
        (Answered(req[r]) /\ PassedValidation(req[r])) =>
            IF req[r].error # <<>>
            THEN /\ Status(req[r]) \in 500..599
                 /\ Body(req[r]) = Failure(req[r].error)
                 /\ (LoggingEnabled /\ ~req[r].writeFault) =>
                        \E x \in TransactionsOf(r) :
                            /\ x.data.success = FALSE
                            /\ x.data.errorMessage = Just(req[r].error)
            ELSE /\ Status(req[r]) = 200
                 /\ Body(req[r]).success = TRUE
                 /\ "error" \notin DOMAIN Body(req[r])

\* the external calls of one request, in the order the route makes them
PipelineCalls ==
    << "enhance:start", "enhance:end", "generate:start", "generate:end",
       "download:start", "download:end" >>

IsPrefix(a, b) == Len(a) <= Len(b) /\ SubSeq(b, 1, Len(a)) = a

C5_EnhancementFailureFallsBack ==
    \A r \in Reqs :
        req[r].settled = Settled("enhance", "failed", 0) =>
            /\ req[r].pc = "generating"
            /\ ~Answered(req[r])
            /\ req[r].error = <<>>
            /\ req[r].enhancedPrompt = Just(PromptToEnhance(req[r], config))
            /\ req[r].finalPrompt =
                   Just(IF config.routes = "timers"
                        THEN CreateFinalPrompt(req[r].originalPrompt, ImageTypeOf(req[r].body))
                        ELSE Val(req[r].body.prompt))
            /\ req[r].calls = <<"enhance:start", "enhance:end", "generate:start">>

C5_Witness ==
    \E r \in Reqs :
        /\ req[r].settled = Settled("enhance", "failed", 0)
        /\ config.routes = "timers"
        /\ req[r].pc = "generating"

\* C6: the response is settled before the log writes are: whatever the writes of the
\* transaction, the system event or the API request do, a request whose log write
\* was pending is answered with the response computed before the write, and a
\* response once sent never changes.
C6_LogFailureKeepsResponse ==
    [][\A r \in Reqs :
          /\ req[r].pc = "logging" =>
                \/ req'[r].pc = "logging"
                \/ req'[r].resp =
                     Just([status |-> 200,
                           body |-> IF config.routes = "timers"
                                    THEN TimersSuccessBody(req[r], config)
                                    ELSE PerformanceSuccessBody(req[r])])
          /\ req[r].pc = "failLogging" =>
                \/ req'[r].pc = "failLogging"
                \/ req'[r].resp =
                     Just([status |-> 500,
                           body |-> IF config.routes = "timers"
                                    THEN Failure(req[r].error)
                                    ELSE ErrorHandlerBody(config)])
          /\ Answered(req[r]) => req'[r].resp = req[r].resp]_vars

C6_Witness ==
    \E r, q \in Reqs :
        /\ req[r].pc = "done" /\ req[r].writeFault /\ Status(req[r]) = 200
        /\ TransactionsOf(r) = {}
        /\ req[q].pc = "done" /\ req[q].writeFault /\ Status(req[q]) = 500

C9_OversizeRejected ==
    \A r \in Reqs :
        /\ req[r].buffer <= MaxFileSize
        /\ (req[r].settled.call = "download" /\ req[r].settled.n > MaxFileSize) =>
               /\ req[r].pc \in {"failLogging", "responded", "done"}
               /\ req[r].error # <<>>
               /\ req[r].wrote = {}
               /\ Answered(req[r]) =>
                    /\ Status(req[r]) = 500
                    /\ Body(req[r]).success = FALSE

C9_Witness ==
    \E r \in Reqs :
        /\ req[r].settled = Settled("download", "ok", MaxFileSize + 1)
        /\ Answered(req[r])

\* C10: with enhancement switched off, or without a usable key, enhancePrompt makes
\* no completions call, the prompt it returns is the prompt it was given, and the
\* request goes straight on to image generation.
C10_DisabledEnhancementIsIdentity ==
    (~config.llmEnabled \/ ~config.llmApiKey) =>
        \A r \in Reqs :
            /\ \A i \in DOMAIN req[r].calls : req[r].calls[i] # "enhance:start"
            /\ req[r].settled.call # "enhance"
            /\ req[r].pc # "enhancing"
            /\ IsJust(req[r].enhancedPrompt) =>
                   /\ req[r].enhancedPrompt = Just(PromptToEnhance(req[r], config))
                   /\ config.routes = "performance" => req[r].finalPrompt = req[r].body.prompt

C10_Witness ==
    \E r \in Reqs :
        /\ config.routes = "performance"
        /\ ~config.llmEnabled /\ config.llmApiKey
        /\ req[r].pc = "generating"
        /\ req[r].body.imageType = "icon"
        /\ req[r].enhancedPrompt = Just(<<Space, "a">>)

----------------------------------------------------------------------------
(* Service functions called on their own: one call, from its arguments to   *)
(* its result                                                               *)

UpperText == <<"B", "O", "L", "D", " ", "A", " ", "M", "A", "R", "K">>
NineText == <<"b", "o", "l", "d", " ", "a", " ", "m", "a">>
TenText == NineText \o <<"r">>
AiText == <<"x", " ", "A", "s", " ", "A", "n", " ", "A", "I", " ", "m", "o", "d", "e", "l">>

\* originalPrompt as the route passes it
GatePrompts == { GoodText, <<"a">> }

\* response.data.choices[0].text
GateCompletions ==
    { GoodText, UpperText, <<Space>> \o GoodText \o <<Space>>,
      GoodText \o <<"s">>, <<Space, Space>> \o GoodText \o <<"s", Space>>,
      NineText, <<Space>> \o NineText \o <<Space>>, TenText,
      RefusalText, AiText, <<>>, <<Space>>, <<Space, Space>>, ShortText }

IdleCall(fn, args) == [fn |-> fn, args |-> args, result |-> Nothing]

EnhanceCalls ==
    { IdleCall("enhancePrompt", [originalPrompt |-> p, text |-> c]) :
        p \in GatePrompts, c \in GateCompletions }

\* enhancePrompt (enhancement on, key present) with the completions call answered
CallEnhancePrompt ==
    /\ fnCall.fn = "enhancePrompt"
    /\ fnCall.result = Nothing
    /\ fnCall' = [fnCall EXCEPT !.result =
                     Just(EnhanceResult(fnCall.args.originalPrompt,
                                        [t |-> "text", text |-> fnCall.args.text]))]
    /\ UNCHANGED <<pipelineVars, env, boot, disk, db>>

\* prompts handed to generateSafeFilename
ModernTechCo ==
    << "M", "o", "d", "e", "r", "n", " ", "T", "e", "c", "h", "!", " ", "C", "o", "." >>
TestImage ==
    << "t", "e", "s", "t", "/", "i", "m", "a", "g", "e", "!" >>
LongPrompt ==
    << "a", "b", "c", "d", "e", "f", "g", "h", "i", "j", "a", "b", "c", "d", "e", "f",
       "g", "h", "i", "j", "a", "b", "c", "d", "e", "f", "g", "h", "i", "j", "a", "b",
       "c", "d", "e", "f", "g", "h", "i", "j", "a", "b", "c", "d", "e", "f", "g", "h",
       "i", "j", "a", "b", "c", "d", "e", "f", "g", "h", "i", "j" >>
EdgePrompt ==
    << "x", "x", "x", "x", "x", "x", "x", "x", "x", "x", "x", "x", "x", "x", "x", "x",
       "x", "x", "x", "x", "x", "x", "x", "x", "x", "x", "x", "x", "x", "x", "x", "x",
       "x", "x", "x", "x", "x", "x", "x", "x", "x", "x", "x", "x", "x", "x", "x", "x",
       "x", " ", "y" >>

FilenamePrompts ==
    { ModernTechCo, TestImage, LongPrompt, EdgePrompt,
      <<"a", " ", " ", "b", "\t", "c">>, <<" ", "a", " ">>, <<"!", "?", "!">>,
      <<"a", "_", "b", "-", "9">>, <<>> }

ImageKinds == { "logo", "icon" }

Timestamps == { <<0>>, <<123456>>, <<1700000, 0>>, <<1700000, 42>> }

FilenameCalls ==
    { IdleCall("generateSafeFilename",
               [prompt |-> pr, imageType |-> k, timestamp |-> ts, isOriginal |-> o]) :
        pr \in FilenamePrompts, k \in ImageKinds, ts \in Timestamps, o \in BOOLEAN }

CallGenerateSafeFilename ==
    /\ fnCall.fn = "generateSafeFilename"
    /\ fnCall.result = Nothing
    /\ fnCall' = [fnCall EXCEPT !.result =
                     Just(GenerateSafeFilename(fnCall.args.prompt, fnCall.args.imageType,
                                               fnCall.args.timestamp,
                                               fnCall.args.isOriginal))]
    /\ UNCHANGED <<pipelineVars, env, boot, disk, db>>

\* A JSON object is the set of its leaves, each a path of field names with the value
\* found there: {"a": {"b": "v"}} is { <<<<"a", "b">>, "v">> }.
Leaf(path, value) == <<path, value>>

RequestLeaves ==
    { Leaf(<<"prompt">>, "a logo"), Leaf(<<"password">>, "pw"), Leaf(<<"apiKey">>, "k"),
      Leaf(<<"token">>, "t"), Leaf(<<"auth", "token">>, "t2") }

\* req.body after express.json / express.urlencoded: undefined or an object
RequestBodies == { Nothing } \cup { Just(b) : b \in SUBSET RequestLeaves }

\* req.headers: Node gives the names in lower case
RequestHeaders == SUBSET { "authorization", "cookie", "x-api-key", "content-type" }

\* res.locals.responseData: what res.send was last handed, which after res.json is
\* the JSON text of the body; undefined when res.send was never called
ResponseDatas ==
    { Nothing,
      Just([text |-> TRUE,
            leaves |-> { Leaf(<<"success">>, "true"), Leaf(<<"data", "filename">>, "f") }]),
      Just([text |-> TRUE,
            leaves |-> { Leaf(<<"success">>, "false"), Leaf(<<"error">>, "m") }]) }

\* { ...body } with password, apiKey and token deleted
SanitizeRequestBody(body) ==
    IF body = Nothing THEN Nothing
    ELSE Just({ l \in Val(body) : l[1][1] \notin {"password", "apiKey", "token"} })

\* { ...body } with data.apiKey and data.token deleted; the spread of a text is its
\* characters by index, which has no data property
SanitizeResponseBody(body) ==
    IF body = Nothing THEN Nothing
    ELSE IF Val(body).text THEN body
    ELSE Just([Val(body) EXCEPT !.leaves =
                 { l \in @ : ~(Len(l[1]) = 2 /\ l[1][1] = "data"
                               /\ l[1][2] \in {"apiKey", "token"}) }])

\* { ...headers } with authorization, cookie and x-api-key deleted
SanitizeHeaders(headers) == headers \ {"authorization", "cookie", "x-api-key"}

ApiRequestCalls ==
    { IdleCall("logApiRequest", [headers |-> h, body |-> b, responseData |-> d]) :
        h \in RequestHeaders, b \in RequestBodies, d \in ResponseDatas }

\* logApiRequest(req, res, duration) with the database connected: the record created
CallLogApiRequest ==
    /\ fnCall.fn = "logApiRequest"
    /\ fnCall.result = Nothing
    /\ fnCall' = [fnCall EXCEPT !.result =
                     Just([ requestBody |-> SanitizeRequestBody(fnCall.args.body),
                            requestHeaders |-> SanitizeHeaders(fnCall.args.headers),
                            responseBody |->
                                SanitizeResponseBody(fnCall.args.responseData),
                            responseHeaders |-> SanitizeHeaders({"content-type"}) ])]
    /\ UNCHANGED <<pipelineVars, env, boot, disk, db>>

\* the pipeline's variables while another component is exercised
PipelineIdle ==
    /\ config = Nothing /\ req = Nothing /\ timers = {} /\ sessionCache = {}
    /\ store = {} /\ files = Nothing

CallInit ==
    /\ PipelineIdle
    /\ env = Nothing /\ boot = Nothing /\ disk = Nothing /\ db = Nothing
    /\ fnCall \in EnhanceCalls \cup FilenameCalls \cup ApiRequestCalls

CallNext ==
    \/ CallEnhancePrompt
    \/ CallGenerateSafeFilename
    \/ CallLogApiRequest

CallSpec == CallInit /\ [][CallNext]_vars

\* C11: for every completion text c and prompt p, enhancePrompt returns p whenever
\* the trimmed c is empty or shorter than 10 characters, or equals p ignoring case,
\* or contains, ignoring case, one of the failure phrases; otherwise it returns the
\* trimmed c.
C11_QualityGate ==
    (fnCall.fn = "enhancePrompt" /\ IsJust(fnCall.result)) =>
        LET p == fnCall.args.originalPrompt
            t == Trim(fnCall.args.text)
            rejected ==
                \/ Len(t) < 10
                \/ ToLower(t) = ToLower(p)
                \/ \E pat \in FailurePatterns : Includes(ToLower(t), pat)
        IN  Val(fnCall.result) = IF rejected THEN p ELSE t

C11_Witness ==
    /\ fnCall.fn = "enhancePrompt"
    /\ fnCall.args.originalPrompt = GoodText
    /\ fnCall.args.text = UpperText
    /\ fnCall.result = Just(GoodText)

\* the characters of a text written one after the other
RECURSIVE Flatten(_)
Flatten(s) == IF s = <<>> THEN "" ELSE Head(s) \o Flatten(Tail(s))

AlphaNumeric == Letters \cup Digits

\* the runs of whitespace among the characters that are kept
WhitespaceRuns(kept) ==
    Cardinality({ i \in DOMAIN kept :
                    /\ kept[i] \in Whitespace
                    /\ (i = 1 \/ kept[i - 1] \notin Whitespace) })

C14_SanitizedExample ==
    ( /\ fnCall.fn = "generateSafeFilename" /\ IsJust(fnCall.result)
      /\ fnCall.args.prompt = TestImage /\ fnCall.args.imageType = "logo"
      /\ fnCall.args.timestamp = <<123456>> /\ ~fnCall.args.isOriginal )
        => Flatten(Val(fnCall.result)) = "logo_test_image_123456.png"

----------------------------------------------------------------------------
(* FileService on the file system: directories, files with their creation   *)
(* time, the images listed                                                  *)

MaxDiskClock == 2       \* the wall clock runs 0..MaxDiskClock (milliseconds)
MaxGenerations == 3     \* successful generations in one behaviour

GeneratedDir == "public/generated"
OriginalDir == "public/generated/original"
TempDir == "temp"

\* directories saveFile is asked to write into
SaveDirs == { GeneratedDir, OriginalDir, TempDir, "public/exports" }

DiskPrompts == { <<"a">>, <<"a", "!">>, <<"b">> }

NoFiles == [f \in {} |-> 0]

\* fs.writeFile: the parent directory must exist; a new file is born now, an
\* existing one keeps its birth time
WriteFile(d, dir, name, size) ==
    IF dir \notin d.dirs THEN d
    ELSE LET f == <<dir, name>>
             born == IF f \in DOMAIN d.files THEN d.files[f].birthtime ELSE d.clock
         IN  [d EXCEPT !.files =
                 [g \in DOMAIN d.files \cup {f} |->
                     IF g = f THEN [size |-> size, birthtime |-> born] ELSE d.files[g]]]

\* file.endsWith('.png') || file.endsWith('.jpg') || file.endsWith('.jpeg')
IsImageFile(name) ==
    name # <<>> /\ name[Len(name)] \in {".png", ".jpg", ".jpeg"}

ListedFiles(d) ==
    { f \in DOMAIN d.files : f[1] = GeneratedDir /\ IsImageFile(f[2]) }

ListEntry(d, f) ==
    [ filename |-> f[2], path |-> <<"/generated/">> \o f[2],
      size |-> d.files[f].size, created |-> d.files[f].birthtime ]

\* the arrangements of a set as sequences
Arrangements(S) ==
    { q \in [1..Cardinality(S) -> S] : \A i, j \in DOMAIN q : i # j => q[i] # q[j] }

\* a listing that sorts oldest first
ListOldestFirst(d) ==
    { [i \in DOMAIN q |-> ListEntry(d, q[i])] :
        q \in { a \in Arrangements(ListedFiles(d)) :
                  \A i, j \in DOMAIN a :
                      i < j => d.files[a[i]].birthtime <= d.files[a[j]].birthtime } }

\* listGeneratedImages: readdir, filter, stat, sort by created descending; files of
\* equal creation time stay in the order readdir gave them, which is any order
ListGeneratedImages(d) ==
    { [i \in DOMAIN q |-> ListEntry(d, q[i])] :
        q \in { a \in Arrangements(ListedFiles(d)) :
                  \A i, j \in DOMAIN a :
                      i < j => d.files[a[i]].birthtime >= d.files[a[j]].birthtime } }

DiskInit ==
    /\ PipelineIdle
    /\ env = Nothing /\ boot = Nothing /\ fnCall = Nothing /\ db = Nothing
    /\ disk = [ dirs |-> {}, files |-> NoFiles, clock |-> 0,
                produced |-> <<>>, saved |-> Nothing, listing |-> Nothing ]

DiskStep(d) == disk' = d /\ UNCHANGED <<pipelineVars, env, boot, fnCall, db>>

\* createDirectories: fs.mkdir(..., {recursive: true}) of the three directories
CreateDirectories ==
    /\ GeneratedDir \notin disk.dirs
    /\ DiskStep([disk EXCEPT !.dirs = @ \cup {GeneratedDir, OriginalDir, TempDir}])

\* a millisecond passes
Tick ==
    /\ disk.clock < MaxDiskClock
    /\ DiskStep([disk EXCEPT !.clock = @ + 1])

\* saveFile(filepath, buffer) called with a path in one of the directories
CallSaveFile ==
    /\ disk.saved = Nothing
    /\ \E dir \in SaveDirs, size \in 1..2 :
         DiskStep([WriteFile(disk, dir, <<"x", ".png">>, size)
                     EXCEPT !.saved = Just([dir |-> dir, name |-> <<"x", ".png">>,
                                            size |-> size])])

\* downloadAndProcessImage from the timestamp on, every step succeeding: both files
\* are saved and the result is returned
Generate ==
    /\ Len(disk.produced) < MaxGenerations
    /\ {GeneratedDir, OriginalDir} \subseteq disk.dirs
    /\ \E pr \in DiskPrompts :
         LET originalFilename == GenerateSafeFilename(pr, "logo", <<disk.clock>>, TRUE)
             processedFilename == GenerateSafeFilename(pr, "logo", <<disk.clock>>, FALSE)
             d1 == WriteFile(disk, OriginalDir, originalFilename, 2)
             d2 == WriteFile(d1, GeneratedDir, processedFilename, 1)
         IN  DiskStep([d2 EXCEPT !.produced = Append(@, processedFilename)])

\* GET /api/images: listGeneratedImages
List ==
    /\ GeneratedDir \in disk.dirs
    /\ \E l \in ListGeneratedImages(disk) :
         DiskStep([disk EXCEPT !.listing = Just([images |-> l, after |-> Len(disk.produced)])])

DiskNext ==
    \/ CreateDirectories
    \/ Tick
    \/ CallSaveFile
    \/ Generate
    \/ List

DiskSpec == DiskInit /\ [][DiskNext]_vars

\* the listing was taken with no file but the generations' in the directory
ListedGenerationsOnly ==
    /\ IsJust(disk.listing)
    /\ ~(IsJust(disk.saved) /\ Val(disk.saved).dir = GeneratedDir)

\* C12: listGeneratedImages called after N successful generations, starting from an
\* empty generated directory, returns exactly N entries, each created strictly later
\* than the one after it.
C12_ListsEveryGeneration ==
    ListedGenerationsOnly =>
        LET l == Val(disk.listing)
        IN  /\ Len(l.images) = l.after
            /\ \A i, j \in DOMAIN l.images :
                   i < j => l.images[i].created > l.images[j].created

\* C12 (amended): the listing has one entry per filename the generations so far
\* produced (N entries for N generations unless two of them, run in the same
\* millisecond with prompts of the same slug and kind, produced the same filename),
\* and no entry is created earlier than the one after it.
C12_ListsEveryFilename ==
    ListedGenerationsOnly =>
        LET l == Val(disk.listing)
            names == { disk.produced[i] : i \in 1..l.after }
        IN  /\ { l.images[i].filename : i \in DOMAIN l.images } = names
            /\ Len(l.images) = Cardinality(names)
            /\ Cardinality(names) = l.after \/
                   \E i, j \in 1..l.after : i # j /\ disk.produced[i] = disk.produced[j]
            /\ \A i, j \in DOMAIN l.images :
                   i < j => l.images[i].created >= l.images[j].created

C12_Witness ==
    /\ ListedGenerationsOnly
    /\ Val(disk.listing).after = 3
    /\ Len(Val(disk.listing).images) = 3
    /\ Val(disk.listing).images[1].created > Val(disk.listing).images[3].created

\* C15: saveFile(path, bytes) leaves the file present with these bytes, in a
\* directory that did not exist before the call as well.
C15_SaveCreatesDirectories ==
    IsJust(disk.saved) =>
        LET sv == Val(disk.saved)
        IN  /\ <<sv.dir, sv.name>> \in DOMAIN disk.files
            /\ disk.files[<<sv.dir, sv.name>>].size = sv.size

----------------------------------------------------------------------------
(* Boot: ConfigService reads process.env, the database service initializes, *)
(* the server answers /api/health and /api/config                           *)

\* A variable of process.env is absent (Nothing) or a string; a key's string is a
\* sequence of chunks, so that includes('your_') is a search for the chunk "your_".
Flags == { Undefined, "true", "false" }
PlaceholderKey == <<"your_", "llm_api_key_here">>
ApiKeyValues == { Nothing, Just(<<>>), Just(<<"key-1">>), Just(<<"key-2">>) }
LlmKeyValues ==
    { Nothing, Just(<<>>), Just(PlaceholderKey), Just(<<"sk-", "your_", "x">>),
      Just(<<"key-3">>), Just(<<"key-4">>) }

Envs ==
    [ API_KEY : ApiKeyValues,
      ENABLE_PROMPT_ENHANCEMENT : Flags,
      USE_SHARED_API_KEY : { Undefined, "true" },
      LLM_API_KEY : LlmKeyValues,
      ENABLE_DATABASE_LOGGING : Flags,
      LOG_TRANSACTIONS : Flags,
      LOG_API_REQUESTS : Flags,
      LOG_SYSTEM_EVENTS : Flags ]

\* !process.env.X for a string variable
Falsy(v) == v = Nothing \/ v = Just(<<>>)

\* !llmKey || llmKey.includes('your_') || llmKey === 'your_llm_api_key_here'
IsPlaceholder(llmKey) ==
    \/ Falsy(llmKey)
    \/ \E i \in DOMAIN Val(llmKey) : Val(llmKey)[i] = "your_"
    \/ Val(llmKey) = PlaceholderKey

\* a validateRequiredConfig that checks the image-generation key only
ValidateApiKeyOnly(e) == ~Falsy(e.API_KEY)

\* validateRequiredConfig: TRUE when it returns, FALSE when it calls process.exit(1)
ValidateRequiredConfig(e) ==
    /\ ~Falsy(e.API_KEY)
    /\ ~( /\ e.ENABLE_PROMPT_ENHANCEMENT = "true"
          /\ e.USE_SHARED_API_KEY # "true"
          /\ IsPlaceholder(e.LLM_API_KEY) )

InitializeConfig(e) ==
    [ api |-> [apiKey |-> e.API_KEY],
      llm |-> [ enabled |-> e.ENABLE_PROMPT_ENHANCEMENT = "true",
                useSharedKey |-> e.USE_SHARED_API_KEY = "true",
                apiKey |-> IF e.USE_SHARED_API_KEY = "true" THEN e.API_KEY
                           ELSE IF ~IsPlaceholder(e.LLM_API_KEY) THEN e.LLM_API_KEY
                           ELSE Nothing ],
      database |->
          [ enabled |-> e.ENABLE_DATABASE_LOGGING = "true",
            logTransactions |->
                e.LOG_TRANSACTIONS = "true" \/ e.ENABLE_DATABASE_LOGGING = "true",
            logApiRequests |->
                e.LOG_API_REQUESTS = "true" \/ e.ENABLE_DATABASE_LOGGING = "true",
            logSystemEvents |->
                e.LOG_SYSTEM_EVENTS = "true" \/ e.ENABLE_DATABASE_LOGGING = "true" ] ]

\* the configuration as the request pipeline reads it
PipelineConfig(b) ==
    [ routes |-> b.routes,
      dbEnabled |-> b.cfg.database.enabled,
      dbInitialized |-> b.isInitialized,
      llmEnabled |-> b.cfg.llm.enabled,
      llmApiKey |-> ~Falsy(b.cfg.llm.apiKey),
      production |-> FALSE ]

LogKinds == { "transaction", "apiRequest", "systemEvent" }

\* the sub-toggle logImageGeneration / logApiRequest / logSystemEvent reads
LogToggle(cfg, kind) ==
    CASE kind = "transaction" -> cfg.database.logTransactions
      [] kind = "apiRequest" -> cfg.database.logApiRequests
      [] kind = "systemEvent" -> cfg.database.logSystemEvents

\* does the log call reach db.create?  The "performance" service asks isEnabled()
\* and the sub-toggle; the "timers" service asks nothing and needs the connection.
LogCallCreates(b, kind) ==
    IF b.routes = "performance"
    THEN IsEnabled(PipelineConfig(b)) /\ LogToggle(b.cfg, kind)
    ELSE b.isInitialized

\* a flag that is the key itself
EchoKey(key) == key

\* !!config.apiConfig.apiKey, !!config.llmConfig.apiKey
HasKey(key) == ~Falsy(key)

\* GET /api/health (timestamp aside)
HealthBody(b) ==
    [ status |-> "healthy",
      config |->
        [ hasApiKey |-> HasKey(b.cfg.api.apiKey),
          logoSize |-> LogoSize,
          iconSize |-> IconSize,
          llmEnhancement |->
            [ enabled |-> b.cfg.llm.enabled,
              hasLlmApiKey |-> HasKey(b.cfg.llm.apiKey),
              usingSharedKey |-> b.cfg.llm.useSharedKey,
              available |-> IsEnhancementEnabled(PipelineConfig(b)) ],
          database |-> [ isConnected |-> b.isInitialized,
                         totalRecords |-> Cardinality(b.created) ] ] ]

\* GET /api/config
ConfigBody(b) ==
    [ success |-> TRUE,
      config |->
        [ imageTypes |-> <<"logo", "icon">>,
          imageSizes |-> [logo |-> LogoSize, icon |-> IconSize],
          maxFileSize |-> MaxFileSize,
          promptEnhancement |->
            [ enabled |-> b.cfg.llm.enabled,
              available |-> IsEnhancementEnabled(PipelineConfig(b)) ] ] ]

BootInit ==
    /\ PipelineIdle
    /\ fnCall = Nothing /\ disk = Nothing /\ db = Nothing
    /\ env \in Envs
    /\ \E rf \in RouteFiles :
         boot = [ phase |-> "loading", routes |-> rf, cfg |-> Nothing,
                  isInitialized |-> FALSE, asked |-> {}, created |-> {},
                  health |-> Nothing, configBody |-> Nothing ]

BootStep(b) == boot' = b /\ UNCHANGED <<pipelineVars, env, fnCall, disk, db>>

\* require('./config'): new ConfigService()
LoadConfig ==
    /\ boot.phase = "loading"
    /\ BootStep(IF ValidateRequiredConfig(env)
                THEN [boot EXCEPT !.phase = "configured", !.cfg = InitializeConfig(env)]
                ELSE [boot EXCEPT !.phase = "exited"])

\* Application.initialize: databaseService.initialize(), its failure caught
InitializeDatabase ==
    /\ boot.phase = "configured"
    /\ \E connected \in BOOLEAN :
         BootStep([boot EXCEPT
             !.phase = "serving",
             !.isInitialized =
                 IF boot.routes = "performance" /\ ~boot.cfg.database.enabled
                 THEN FALSE ELSE connected])

\* a generate attempt, an API request or a system event is handed to the service
LogCall(kind) ==
    /\ boot.phase = "serving"
    /\ kind \notin boot.asked
    /\ BootStep([boot EXCEPT
           !.asked = @ \cup {kind},
           !.created = IF LogCallCreates(boot, kind) THEN @ \cup {kind} ELSE @])

Health ==
    /\ boot.phase = "serving"
    /\ boot.health = Nothing
    /\ BootStep([boot EXCEPT !.health = Just(HealthBody(boot))])

GetConfig ==
    /\ boot.phase = "serving"
    /\ boot.configBody = Nothing
    /\ BootStep([boot EXCEPT !.configBody = Just(ConfigBody(boot))])

BootNext ==
    \/ LoadConfig
    \/ InitializeDatabase
    \/ \E kind \in LogKinds : LogCall(kind)
    \/ Health
    \/ GetConfig

BootSpec == BootInit /\ [][BootNext]_vars

\* what a sub-toggle is meant to be: its own value when set, the master's otherwise
OwnOrMaster(own, master) ==
    IF own \in {"true", "false"} THEN own = "true" ELSE master = "true"

MeantToggle(e, kind) ==
    CASE kind = "transaction" -> OwnOrMaster(e.LOG_TRANSACTIONS, e.ENABLE_DATABASE_LOGGING)
      [] kind = "apiRequest" -> OwnOrMaster(e.LOG_API_REQUESTS, e.ENABLE_DATABASE_LOGGING)
      [] kind = "systemEvent" -> OwnOrMaster(e.LOG_SYSTEM_EVENTS, e.ENABLE_DATABASE_LOGGING)

\* C16: each logging sub-toggle has its own configured value when set and the master
\* switch's value otherwise, whatever the other two are, and a generate attempt, an
\* API request or a system event handed to a connected service is written exactly
\* when its sub-toggle is on (ENABLE_DATABASE_LOGGING=false with LOG_TRANSACTIONS=true
\* logs transactions, ENABLE_DATABASE_LOGGING=true with LOG_TRANSACTIONS=false does
\* not).
C16_SubTogglesIndependent ==
    boot.phase = "serving" =>
        \A kind \in LogKinds :
            /\ LogToggle(boot.cfg, kind) = MeantToggle(env, kind)
            /\ (kind \in boot.asked /\ (boot.isInitialized \/ ~boot.cfg.database.enabled))
                  => (kind \in boot.created <=> MeantToggle(env, kind))

\* a key that counts as a credential: set, not empty, not a placeholder
UsableKey(key) ==
    /\ key # Nothing /\ key # Just(<<>>)
    /\ \A i \in DOMAIN Val(key) : Val(key)[i] # "your_"

\* C17: the process exits at boot unless API_KEY is set and, when enhancement is
\* enabled without the shared-key flag, LLM_API_KEY is a usable key; so whenever the
\* configuration exists, llm.enabled implies that llm.apiKey is a credential, and
\* isEnhancementEnabled() equals llm.enabled.
C17_BootValidation ==
    /\ boot.phase # "loading" =>
          ( boot.phase = "exited" <=>
              ~( /\ env.API_KEY # Nothing /\ env.API_KEY # Just(<<>>)
                 /\ ( env.ENABLE_PROMPT_ENHANCEMENT = "true"
                      /\ env.USE_SHARED_API_KEY # "true" ) => UsableKey(env.LLM_API_KEY) ) )
    /\ boot.phase \in {"configured", "serving"} =>
          /\ boot.cfg.llm.enabled =>
                /\ boot.cfg.llm.apiKey # Nothing
                /\ boot.cfg.llm.apiKey # Just(<<>>)
                /\ boot.cfg.llm.apiKey \in {env.API_KEY, env.LLM_API_KEY}
          /\ IsEnhancementEnabled(PipelineConfig(boot)) = boot.cfg.llm.enabled

C17_Witness ==
    /\ boot.phase = "serving"
    /\ boot.cfg.llm.enabled
    /\ ~boot.cfg.llm.useSharedKey
    /\ boot.cfg.llm.apiKey = Just(<<"key-3">>)

\* the environments that differ from e in the values of its usable keys only
SameButKeys(e) ==
    { [e EXCEPT !.API_KEY = a, !.LLM_API_KEY = l] :
        a \in { k \in ApiKeyValues : UsableKey(k) },
        l \in IF UsableKey(e.LLM_API_KEY)
              THEN { k \in LlmKeyValues : UsableKey(k) }
              ELSE { e.LLM_API_KEY } }

\* C18: the health and config bodies hold no key: a server booted with other values
\* for its (usable) API_KEY and LLM_API_KEY, and otherwise in the same state, answers
\* /api/health and /api/config with the same bodies.
C18_BodiesHideKeys ==
    boot.phase = "serving" =>
        \A f \in SameButKeys(env) :
            LET other == [boot EXCEPT !.cfg = InitializeConfig(f)]
            IN  /\ IsJust(boot.health) =>
                      Val(boot.health) =
                          [HealthBody(other) EXCEPT
                              !.config.database = Val(boot.health).config.database]
                /\ IsJust(boot.configBody) => Val(boot.configBody) = ConfigBody(other)

C18_Witness ==
    /\ boot.phase = "serving"
    /\ env.API_KEY = Just(<<"key-2">>) /\ env.LLM_API_KEY = Just(<<"key-4">>)
    /\ boot.cfg.llm.apiKey = Just(<<"key-4">>)
    /\ IsJust(boot.health) /\ IsJust(boot.configBody)

\* the leaves found under a field named password, apiKey or token
SecretLeaves(leaves) ==
    { l \in leaves : \E i \in DOMAIN l[1] : l[1][i] \in {"password", "apiKey", "token"} }

\* C19: a stored API-request log entry holds no authorization, cookie or x-api-key
\* header and no password, apiKey or token field of the request body or of the
\* response body, whatever the request.
C19_LogEntryHoldsNoSecret ==
    (fnCall.fn = "logApiRequest" /\ IsJust(fnCall.result)) =>
        LET entry == Val(fnCall.result)
        IN  /\ entry.requestHeaders \cap {"authorization", "cookie", "x-api-key"} = {}
            /\ entry.responseHeaders \cap {"authorization", "cookie", "x-api-key"} = {}
            /\ IsJust(entry.requestBody) => SecretLeaves(Val(entry.requestBody)) = {}
            /\ IsJust(entry.responseBody) =>
                   SecretLeaves(Val(entry.responseBody).leaves) = {}

----------------------------------------------------------------------------
\* MockDatabase: the JSON-file record store with its in-memory cache

MaxIds == 2
MaxRev == 1
DefaultMaxCacheSize == 1000

DbModels == { "SystemEventLog", "UserSession" }
Ids == 1 .. MaxIds
Keys == DbModels \X Ids

\* DATABASE_MAX_CACHE_SIZE as set in the environment: unset, or its characters
CacheSizeSettings ==
    { Nothing, Just(<<"0">>), Just(<<"1">>), Just(<<"2">>), Just(<<"3">>),
      Just(<<"-", "1">>), Just(<<"a", "l", "l">>) }

\* DATABASE_ENABLE_CACHE as set in the environment
EnableCacheSettings == { Nothing, Just("true"), Just("false") }

DigitValue(c) == CHOOSE n \in 0 .. 9 : ToString(n) = c

RECURSIVE LeadingDigits(_, _)
\* the value of the digits text starts with, after the digits already read as acc;
\* Nothing (NaN) when there was no digit at all
LeadingDigits(text, acc) ==
    IF text = <<>> \/ Head(text) \notin Digits THEN acc
    ELSE LeadingDigits(Tail(text),
                       Just((IF acc = Nothing THEN 0 ELSE Val(acc)) * 10
                            + DigitValue(Head(text))))

RECURSIVE ParseInt(_)
\* parseInt(text): leading white space skipped, an optional sign, then digits
ParseInt(text) ==
    IF text = <<>> THEN Nothing
    ELSE IF Head(text) \in Whitespace THEN ParseInt(Tail(text))
    ELSE IF Head(text) = "-"
         THEN LET n == LeadingDigits(Tail(text), Nothing)
              IN  IF n = Nothing THEN Nothing ELSE Just(0 - Val(n))
    ELSE IF Head(text) = "+" THEN LeadingDigits(Tail(text), Nothing)
    ELSE LeadingDigits(text, Nothing)

\* getDatabaseConfig('mock'): a NaN or zero size gives way to the default
GetDatabaseConfig(sizeSetting, cacheSetting) ==
    LET parsed == IF sizeSetting = Nothing THEN Nothing ELSE ParseInt(Val(sizeSetting))
    IN  [ enableCache |-> cacheSetting # Just("false"),
          maxCacheSize |-> IF parsed = Nothing \/ Val(parsed) = 0
                           THEN DefaultMaxCacheSize ELSE Val(parsed) ]

NoRows == [k \in Keys |-> Nothing]

\* new MockDatabase(options)
NewMockDatabase(options) ==
    [ cacheEnabled |-> options.enableCache # FALSE,
      maxCacheSize |-> IF options.maxCacheSize = 0 THEN DefaultMaxCacheSize
                       ELSE options.maxCacheSize,
      isConnected |-> FALSE,
      rows |-> NoRows,
      cache |-> <<>>,
      last |-> [op |-> "none", key |-> <<"SystemEventLog", 1>>, was |-> <<>>] ]

CacheKeys(cache) == { cache[i].key : i \in DOMAIN cache }

\* Map.set: a key already present keeps its place, a new key goes last
MapSet(cache, key, value) ==
    IF key \in CacheKeys(cache)
    THEN [i \in DOMAIN cache |->
            IF cache[i].key = key THEN [key |-> key, value |-> value] ELSE cache[i]]
    ELSE Append(cache, [key |-> key, value |-> value])

\* Map.delete
MapDelete(cache, key) == SelectSeq(cache, LAMBDA e : e.key # key)

\* Map.get: Nothing when the key is absent
MapGet(cache, key) ==
    IF key \in CacheKeys(cache)
    THEN Just((CHOOSE e \in { cache[i] : i \in DOMAIN cache } : e.key = key).value)
    ELSE Nothing

\* updateCache without the eviction
UpdateCacheKeepsAll(d, key, value) ==
    IF ~d.cacheEnabled THEN d ELSE [d EXCEPT !.cache = MapSet(@, key, value)]

\* updateCache dropping the key inserted last
UpdateCacheEvictsNewest(d, key, value) ==
    IF ~d.cacheEnabled THEN d
    ELSE LET room == IF Len(d.cache) >= d.maxCacheSize /\ d.cache # <<>>
                     THEN SubSeq(d.cache, 1, Len(d.cache) - 1) ELSE d.cache
         IN  [d EXCEPT !.cache = MapSet(room, key, value)]

\* updateCache(key, value): at capacity the first key is dropped, then the key is set
UpdateCache(d, key, value) ==
    IF ~d.cacheEnabled THEN d
    ELSE LET room == IF Len(d.cache) >= d.maxCacheSize /\ d.cache # <<>>
                     THEN Tail(d.cache) ELSE d.cache
         IN  [d EXCEPT !.cache = MapSet(room, key, value)]

\* create(model, data) on a connected store: the file written, the record cached
CreateRecord(d, key) ==
    LET written == [d EXCEPT !.rows[key] = Just(0)]
    IN  IF d.cacheEnabled THEN UpdateCache(written, key, 0) ELSE written

\* findById(model, id): the store afterwards; a cached record is returned as it is, a
\* record read from its file is cached, a missing file changes nothing
FindById(d, key) ==
    IF d.cacheEnabled /\ IsJust(MapGet(d.cache, key)) THEN d
    ELSE IF d.rows[key] = Nothing THEN d
    ELSE IF d.cacheEnabled THEN UpdateCache(d, key, Val(d.rows[key])) ELSE d

\* what findById(model, id) returns: Nothing for null
Found(d, key) ==
    IF d.cacheEnabled /\ IsJust(MapGet(d.cache, key)) THEN MapGet(d.cache, key)
    ELSE d.rows[key]

\* update(model, id, updates): not-found is thrown after the lookup
Update(d, key) ==
    LET looked == FindById(d, key)
        existing == Found(d, key)
    IN  IF existing = Nothing THEN looked
        ELSE LET updated == Val(existing) + 1
                 written == [looked EXCEPT !.rows[key] = Just(updated)]
             IN  IF d.cacheEnabled THEN UpdateCache(written, key, updated) ELSE written

\* delete(model, id): a missing file returns false before the cache is touched
Delete(d, key) ==
    IF d.rows[key] = Nothing THEN d
    ELSE LET unlinked == [d EXCEPT !.rows[key] = Nothing]
         IN  IF d.cacheEnabled
             THEN [unlinked EXCEPT !.cache = MapDelete(@, key)] ELSE unlinked

\* ids uuidv4 can still hand out for a model
FreshIds(d, model) == { i \in Ids : d.rows[<<model, i>>] = Nothing }

MockInit ==
    /\ PipelineIdle
    /\ env = Nothing /\ boot = Nothing /\ fnCall = Nothing /\ disk = Nothing
    /\ \E size \in CacheSizeSettings, enable \in EnableCacheSettings :
         db = NewMockDatabase(GetDatabaseConfig(size, enable))

MockStep(d) == db' = d /\ UNCHANGED <<pipelineVars, env, boot, fnCall, disk>>

\* the store after an operation, with the operation that ran last, its key and the
\* cache it found
Ran(d, op, key) == [d EXCEPT !.last = [op |-> op, key |-> key, was |-> db.cache]]

\* connect(): the directories made, then the database_connect event recorded
MockConnect ==
    /\ ~db.isConnected
    /\ \E id \in FreshIds(db, "SystemEventLog") :
         MockStep(Ran(CreateRecord([db EXCEPT !.isConnected = TRUE],
                                  <<"SystemEventLog", id>>),
                     "connect", <<"SystemEventLog", id>>))

\* disconnect(): the database_disconnect event recorded, then the cache cleared
MockDisconnect ==
    /\ db.isConnected
    /\ \E id \in FreshIds(db, "SystemEventLog") :
         MockStep(Ran([CreateRecord(db, <<"SystemEventLog", id>>) EXCEPT
                          !.cache = <<>>, !.isConnected = FALSE],
                      "disconnect", <<"SystemEventLog", id>>))

MockCreate ==
    /\ db.isConnected
    /\ \E key \in Keys : MockStep(Ran(CreateRecord(db, key), "create", key))

MockFindById ==
    /\ db.isConnected
    /\ \E key \in Keys : MockStep(Ran(FindById(db, key), "findById", key))

MockUpdate ==
    /\ db.isConnected
    /\ \E key \in Keys :
         /\ Found(db, key) # Nothing => Val(Found(db, key)) < MaxRev
         /\ MockStep(Ran(Update(db, key), "update", key))

MockDelete ==
    /\ db.isConnected
    /\ \E key \in Keys : MockStep(Ran(Delete(db, key), "delete", key))

MockNext ==
    \/ MockConnect
    \/ MockDisconnect
    \/ MockCreate
    \/ MockFindById
    \/ MockUpdate
    \/ MockDelete

MockSpec == MockInit /\ [][MockNext]_vars

\* C20: whatever create, findById, update and delete have done, the cache holds no
\* more entries than the configured maximum cache size.
C20_CacheWithinMaximum ==
    (db # Nothing /\ db.isConnected) => Len(db.cache) <= db.maxCacheSize

\* what the eviction does keep: the cache within the maximum, or within one entry when
\* the maximum is below one
CacheWithinCapacity ==
    db # Nothing =>
        Len(db.cache) <= (IF db.maxCacheSize < 1 THEN 1 ELSE db.maxCacheSize)

\* a full cache whose oldest key made room for a new one
CacheEvicted ==
    /\ db # Nothing /\ db.maxCacheSize = 2 /\ Len(db.cache) = 2
    /\ \E k \in Keys : db.rows[k] # Nothing /\ k \notin CacheKeys(db.cache)

----------------------------------------------------------------------------
\* the target size the configuration gives an image kind
TargetSize(imageType) == IF imageType = "icon" THEN IconSize ELSE LogoSize

\* C25: the dimensions reported for a processed image are those read back from the
\* processed bytes or, when reading them failed, the target size of the requested
\* kind (icon size for an icon, logo size for a logo); the request does not fail.
C25_DimensionsFallBackToKind ==
    \A r \in Reqs :
        (Answered(req[r]) /\ Status(req[r]) = 200) =>
            LET image == req[r].image
                target == TargetSize(ImageTypeOf(req[r].body))
            IN  \/ image.dimensions = [width |-> image.width, height |-> image.height]
                \/ image.dimensions = [width |-> target, height |-> target]

\* C26: the performance timer started for a generate request is gone by the time the
\* request is answered, whatever the outcome; with no generate request in flight no
\* timer is active.
C26_NoTimerOutlivesItsRequest ==
    /\ \A r \in Reqs : Answered(req[r]) => r \notin timers
    /\ (\A r \in Reqs : req[r].pc = "idle" \/ Answered(req[r])) => timers = {}

\* C29: a request sent with enhancePrompt false, as the boolean or as the string
\* 'false', never has the text-completion endpoint called, and the prompt it sends to
\* image generation is built from the caller's original prompt.
C29_NoEnhancementWhenDeclined ==
    \A r \in Reqs :
        (req[r].body.parsed /\ req[r].body.enhancePrompt \in {"bool:false", "str:false"}) =>
            /\ \A i \in DOMAIN req[r].calls : req[r].calls[i] # "enhance:start"
            /\ IsJust(req[r].finalPrompt) =>
                   req[r].finalPrompt =
                       IF config.routes = "timers"
                       THEN Just(CreateFinalPrompt(Trim(Val(req[r].body.prompt)),
                                                   ImageTypeOf(req[r].body)))
                       ELSE req[r].body.prompt

----------------------------------------------------------------------------
\* DatabaseService sessions: getOrCreateSession, createSessionRecord and
\* updateSessionStats as logImageGeneration runs them for overlapping requests

MaxAttempts == 3

\* `${userIP}-${userAgent}`
CallerKeys == { "10.0.0.1-agent", "10.0.0.2-agent" }
Attempts == 1 .. MaxAttempts

NewSession ==
    [ totalRequests |-> 0, successfulGenerations |-> 0, failedGenerations |-> 0,
      totalImagesGenerated |-> 0 ]

NoUpdates == [ totalRequests |-> Nothing, successfulGenerations |-> Nothing,
               failedGenerations |-> Nothing, totalImagesGenerated |-> Nothing ]

IdleAttempt == [ pc |-> "idle", key |-> "10.0.0.1-agent", success |-> FALSE,
                 updates |-> NoUpdates, merged |-> NewSession ]

\* the updates updateSessionStats builds from the session it found
SessionUpdates(session, success) ==
    [ totalRequests |-> Just(session.totalRequests + 1),
      successfulGenerations |->
          IF success THEN Just(session.successfulGenerations + 1) ELSE Nothing,
      totalImagesGenerated |->
          IF success THEN Just(session.totalImagesGenerated + 1) ELSE Nothing,
      failedGenerations |->
          IF success THEN Nothing ELSE Just(session.failedGenerations + 1) ]

\* { ...existing, ...updates }
Merge(existing, updates) ==
    [f \in DOMAIN existing |-> IF IsJust(updates[f]) THEN Val(updates[f]) ELSE existing[f]]

\* findById('UserSession', id): the cached record, else the record in the file
SessionLookup(d, key) ==
    IF d.cacheEnabled /\ IsJust(d.cache[key]) THEN d.cache[key] ELSE d.file[key]

\* the record written and, with the cache on, cached
SessionStore(d, key, record) ==
    [d EXCEPT !.file[key] = Just(record),
              !.cache[key] = IF d.cacheEnabled THEN Just(record) ELSE @]

SessionInit ==
    /\ PipelineIdle
    /\ env = Nothing /\ boot = Nothing /\ fnCall = Nothing /\ disk = Nothing
    /\ \E enabled \in BOOLEAN :
         db = [ cacheEnabled |-> enabled,
                sessionCache |-> {},
                pending |-> {},
                created |-> [k \in CallerKeys |-> 0],
                file |-> [k \in CallerKeys |-> Nothing],
                cache |-> [k \in CallerKeys |-> Nothing],
                attempts |-> [a \in Attempts |-> IdleAttempt] ]

SessionStep(d) == db' = d /\ UNCHANGED <<pipelineVars, env, boot, fnCall, disk>>

\* logImageGeneration to its first await: getOrCreateSession (a new key is cached
\* and createSessionRecord started without being awaited), then db.create is called
SessionLogStart(a) ==
    /\ db.attempts[a].pc = "idle"
    /\ \E key \in CallerKeys, success \in BOOLEAN :
         LET isNew == key \notin db.sessionCache
         IN  SessionStep([db EXCEPT
                 !.sessionCache = @ \cup {key},
                 !.pending = IF isNew THEN @ \cup {key} ELSE @,
                 !.attempts[a] = [@ EXCEPT !.pc = "creating", !.key = key,
                                           !.success = success]])

\* createSessionRecord: its db.create settles
SessionCreateSettles(key) ==
    /\ key \in db.pending
    /\ SessionStep([SessionStore(db, key, NewSession) EXCEPT
                       !.pending = @ \ {key},
                       !.created[key] = @ + 1])

\* the transaction's db.create settles; updateSessionStats calls findById
SessionTransactionCreated(a) ==
    /\ db.attempts[a].pc = "creating"
    /\ SessionStep([db EXCEPT !.attempts[a].pc = "finding"])

\* findById settles: without a session nothing is updated; else db.update is called
\* with the new counters, and a cached record answers its own findById at once
SessionFound(a) ==
    /\ db.attempts[a].pc = "finding"
    /\ LET at == db.attempts[a]
           session == SessionLookup(db, at.key)
           looked == IF IsJust(session) /\ db.cacheEnabled
                     THEN [db EXCEPT !.cache[at.key] = session] ELSE db
       IN  IF session = Nothing
           THEN SessionStep([db EXCEPT !.attempts[a].pc = "done"])
           ELSE LET updates == SessionUpdates(Val(session), at.success)
                IN  IF db.cacheEnabled
                    THEN SessionStep([looked EXCEPT !.attempts[a] =
                             [@ EXCEPT !.pc = "writing", !.updates = updates,
                                       !.merged = Merge(Val(session), updates)]])
                    ELSE SessionStep([looked EXCEPT !.attempts[a] =
                             [@ EXCEPT !.pc = "reading", !.updates = updates]])

\* db.update: its findById settles and the merged record's write is started
SessionUpdateRead(a) ==
    /\ db.attempts[a].pc = "reading"
    /\ LET at == db.attempts[a]
           existing == SessionLookup(db, at.key)
       IN  IF existing = Nothing
           THEN SessionStep([db EXCEPT !.attempts[a].pc = "done"])
           ELSE SessionStep([db EXCEPT !.attempts[a] =
                    [@ EXCEPT !.pc = "writing",
                              !.merged = Merge(Val(existing), at.updates)]])

\* db.update: the write settles and the cache is refreshed
SessionUpdateWritten(a) ==
    /\ db.attempts[a].pc = "writing"
    /\ SessionStep([SessionStore(db, db.attempts[a].key, db.attempts[a].merged) EXCEPT
                       !.attempts[a].pc = "done"])

SessionNext ==
    \/ \E a \in Attempts : SessionLogStart(a)
    \/ \E key \in CallerKeys : SessionCreateSettles(key)
    \/ \E a \in Attempts : SessionTransactionCreated(a)
    \/ \E a \in Attempts : SessionFound(a)
    \/ \E a \in Attempts : SessionUpdateRead(a)
    \/ \E a \in Attempts : SessionUpdateWritten(a)

SessionSpec == SessionInit /\ [][SessionNext]_vars

\* the attempts logged for a caller key
LoggedAttempts(key) ==
    { a \in Attempts : db.attempts[a].pc = "done" /\ db.attempts[a].key = key }

\* nothing of the session logging is in flight
SessionsQuiet ==
    /\ db.pending = {}
    /\ \A a \in Attempts : db.attempts[a].pc \in {"idle", "done"}

\* C24: each caller key gets exactly one session record, created on the first logged
\* request from the key, and once its logged generate attempts (overlapping ones
\* included) have finished, the session's total-request counter is the number of
\* attempts and the sum of its success and failure counters.
C24_SessionCountsAttempts ==
    (db # Nothing /\ SessionsQuiet) =>
        \A key \in CallerKeys :
            LoggedAttempts(key) # {} =>
                /\ db.created[key] = 1
                /\ IsJust(db.file[key])
                /\ Val(db.file[key]).totalRequests = Cardinality(LoggedAttempts(key))
                /\ Val(db.file[key]).totalRequests =
                       Val(db.file[key]).successfulGenerations
                       + Val(db.file[key]).failedGenerations

----------------------------------------------------------------------------
\* s with the entries of a key left out
Without(s, key) == SelectSeq(s, LAMBDA e : e.key # key)

\* b is what is left of a when some of its first entries are dropped
IsSuffix(b, a) ==
    /\ Len(b) <= Len(a)
    /\ \A i \in DOMAIN b : b[i] = a[i + (Len(a) - Len(b))]

\* C21: an insertion into a full cache evicts the entry whose key was inserted
\* earliest among those cached (no entry goes while an earlier one stays), and a
\* findById served from the cache leaves the eviction order as it was.
C21_EvictsEarliestInserted ==
    db # Nothing =>
        /\ db.last.op \in {"create", "findById", "update"} =>
               IsSuffix(Without(db.cache, db.last.key), Without(db.last.was, db.last.key))
        /\ (db.last.op = "findById" /\ db.last.key \in CacheKeys(db.last.was)) =>
               db.cache = db.last.was

C21_Witness ==
    /\ db # Nothing
    /\ db.last.op = "create"
    /\ db.maxCacheSize = 2 /\ Len(db.last.was) = 2
    /\ db.last.key \notin CacheKeys(db.last.was)
    /\ CacheKeys(db.cache) = {db.last.was[2].key, db.last.key}

\* C30: refreshing the cache entry of a key that is already cached, through update or
\* through create with an existing id, evicts no other key: the set of cached keys
\* is the same afterwards.
C30_RefreshKeepsCachedKeys ==
    (/\ db # Nothing
     /\ db.last.op \in {"create", "update"}
     /\ db.last.key \in CacheKeys(db.last.was)) =>
        CacheKeys(db.cache) = CacheKeys(db.last.was)

----------------------------------------------------------------------------
\* MockDatabase with its operations in flight: every await of create, findById,
\* update and delete is a point where another operation may run, and fs.writeFile is
\* the three file-system calls it makes (open with truncation, write, close)

MaxStoreClock == 1
MaxOps == 4

\* the ids of the records operated on, all of one model
StoreIds == { 1 }
Slots == 1 .. 2

\* a property of a record that is not there, and one that is there holding undefined
Absent == "absent"
UndefinedValue == "undefined"

Notes == { UndefinedValue, "a", "bb" }

\* the data handed to create; its id is data.id, or the uuid create draws for it
DataInputs == [ note : Notes ]

\* the updates handed to update: a new note, or another id
UpdateInputs ==
    { [id |-> Nothing, note |-> Just("a")], [id |-> Nothing, note |-> Just("bb")],
      [id |-> Just(2), note |-> Nothing] }

NoRecord == [ id |-> 0, createdAt |-> 0, updatedAt |-> 0, note |-> Absent ]

\* { ...data, id, createdAt: timestamp, updatedAt: timestamp }
CreatedRecord(data, id, timestamp) ==
    [ id |-> id, createdAt |-> timestamp, updatedAt |-> timestamp, note |-> data.note ]

\* an update that leaves the supplied fields out
UpdatedRecordDropsUpdates(existing, updates, timestamp) ==
    [existing EXCEPT !.updatedAt = timestamp]

\* { ...existing, ...updates, updatedAt: timestamp }
UpdatedRecord(existing, updates, timestamp) ==
    [ id |-> IF IsJust(updates.id) THEN Val(updates.id) ELSE existing.id,
      createdAt |-> existing.createdAt,
      updatedAt |-> timestamp,
      note |-> IF IsJust(updates.note) THEN Val(updates.note) ELSE existing.note ]

\* JSON.parse(JSON.stringify(record)): a property holding undefined is left out
JsonRoundTrip(record) ==
    [record EXCEPT !.note = IF @ = UndefinedValue THEN Absent ELSE @]

\* the length of JSON.stringify(record), as far as it differs between records
JsonSize(record) ==
    LET note == JsonRoundTrip(record).note
    IN  IF note = Absent THEN 0 ELSE IF note = "a" THEN 1 ELSE 2

\* what a file holds: nothing yet (just truncated), the JSON text of a record, or
\* the start of one text followed by the rest of a longer one
EmptyFile == [ kind |-> "empty", record |-> NoRecord, size |-> 0 ]
JsonFile(record) ==
    [ kind |-> "json", record |-> JsonRoundTrip(record), size |-> JsonSize(record) ]
MixedFile(size) == [ kind |-> "mixed", record |-> NoRecord, size |-> size ]

\* a write of the record's text at offset 0 of a file that holds content
Overwrite(content, record) ==
    IF content.size > JsonSize(record) THEN MixedFile(content.size) ELSE JsonFile(record)

\* what an operation returned
NoResult == [ kind |-> "none", record |-> NoRecord ]
Returned(kind) == [ kind |-> kind, record |-> NoRecord ]
ReturnedRecord(record) == [ kind |-> "record", record |-> record ]

IdleOp ==
    [ pc |-> "idle", op |-> "none", key |-> 1,
      data |-> [note |-> "a"],
      updates |-> [id |-> Nothing, note |-> Nothing],
      record |-> NoRecord,          \* the record to write
      snapshot |-> Nothing,         \* what readFile found
      unlinked |-> FALSE,           \* unlink found the file
      orphan |-> FALSE,             \* the file was unlinked while this call had it open
      result |-> NoResult,
      before |-> NoResult,          \* what findById would have returned at the start
      afterDelete |-> FALSE ]       \* started after a delete of the key returned true

Free(call) == call.pc \in {"idle", "done"}

\* what findById(key) would return if run now with nothing else in flight
FoundNow(d, key) ==
    IF d.cacheEnabled /\ IsJust(MapGet(d.cache, key))
    THEN ReturnedRecord(Val(MapGet(d.cache, key)))
    ELSE IF d.file[key] = Nothing THEN Returned("null")
    ELSE IF Val(d.file[key]).kind = "json" THEN ReturnedRecord(Val(d.file[key]).record)
    ELSE Returned("error")

StoreInit ==
    /\ PipelineIdle
    /\ env = Nothing /\ boot = Nothing /\ fnCall = Nothing /\ disk = Nothing
    /\ \E enabled \in BOOLEAN :
         db = [ cacheEnabled |-> enabled,
                maxCacheSize |-> DefaultMaxCacheSize,
                clock |-> 0,
                file |-> [k \in StoreIds |-> Nothing],
                cache |-> <<>>,
                calls |-> [c \in Slots |-> IdleOp],
                ops |-> 0,                                  \* operations started
                sequential |-> TRUE,                        \* none has overlapped another
                ran |-> {},                                 \* the kinds of operation started
                lastWrite |-> [k \in StoreIds |-> Nothing], \* the record written last
                \* a delete returned true, with no create in flight or since
                deleted |-> [k \in StoreIds |-> FALSE] ]

StoreStep(d) == db' = d /\ UNCHANGED <<pipelineVars, env, boot, fnCall, disk>>

\* the call finishes with a result
Finish(d, c, result) ==
    [d EXCEPT !.calls[c] = [@ EXCEPT !.pc = "done", !.result = result]]

\* an operation is called and runs to its first await
StoreBegin(d, c, op, key, data, updates) ==
    LET call == [IdleOp EXCEPT !.op = op, !.key = key, !.data = data,
                               !.updates = updates,
                               !.before = FoundNow(d, key),
                               !.afterDelete = d.deleted[key]]
        cached == IF d.cacheEnabled THEN MapGet(d.cache, key) ELSE Nothing
        d1 == [d EXCEPT
                 !.ops = @ + 1,
                 !.ran = @ \cup {op},
                 !.sequential = @ /\ \A c2 \in Slots : Free(d.calls[c2]),
                 !.deleted[key] = IF op = "create" THEN FALSE ELSE @]
    IN  IF op = "create"
        THEN [d1 EXCEPT !.calls[c] =
                 [call EXCEPT !.pc = "open",
                              !.record = CreatedRecord(data, key, d.clock)]]
        ELSE IF op = "delete"
        THEN [d1 EXCEPT !.calls[c] = [call EXCEPT !.pc = "unlink"]]
        ELSE IF cached = Nothing
        THEN [d1 EXCEPT !.calls[c] = [call EXCEPT !.pc = "read"]]
        ELSE IF op = "findById"
        THEN Finish([d1 EXCEPT !.calls[c] = call], c, ReturnedRecord(Val(cached)))
        ELSE [d1 EXCEPT !.calls[c] =
                 [call EXCEPT !.pc = "open",
                              !.record = UpdatedRecord(Val(cached), updates, d.clock)]]

\* a caller calls an operation; the wall clock may have moved on since the last call
StoreStart(c) ==
    /\ db.ops < MaxOps
    /\ Free(db.calls[c])
    /\ \A c2 \in Slots : c2 < c => ~Free(db.calls[c2])
    /\ \E key \in StoreIds, now \in db.clock .. MaxStoreClock :
         LET d == [db EXCEPT !.clock = now]
         IN  \/ \E data \in DataInputs :
                  StoreStep(StoreBegin(d, c, "create", key, data, IdleOp.updates))
             \/ StoreStep(StoreBegin(d, c, "findById", key, IdleOp.data, IdleOp.updates))
             \/ \E updates \in UpdateInputs :
                  StoreStep(StoreBegin(d, c, "update", key, IdleOp.data, updates))
             \/ StoreStep(StoreBegin(d, c, "delete", key, IdleOp.data, IdleOp.updates))

\* fs.readFile reads the file, or finds none
StoreReadIo(c) ==
    /\ db.calls[c].pc = "read"
    /\ StoreStep([db EXCEPT !.calls[c] =
                    [@ EXCEPT !.pc = "readSettle", !.snapshot = db.file[db.calls[c].key]]])

\* findById after its readFile: ENOENT is null (not found, for update), a text that
\* does not parse is thrown, a record is cached and returned (or merged, for update)
StoreReadSettle(c) ==
    /\ db.calls[c].pc = "readSettle"
    /\ LET call == db.calls[c]
       IN  IF call.snapshot = Nothing
           THEN StoreStep(Finish(db, c, IF call.op = "update" THEN Returned("error")
                                        ELSE Returned("null")))
           ELSE IF Val(call.snapshot).kind # "json"
           THEN StoreStep(Finish(db, c, Returned("error")))
           ELSE LET record == Val(call.snapshot).record
                    d1 == IF db.cacheEnabled THEN UpdateCache(db, call.key, record)
                          ELSE db
                IN  IF call.op = "findById"
                    THEN StoreStep(Finish(d1, c, ReturnedRecord(record)))
                    ELSE StoreStep([d1 EXCEPT !.calls[c] =
                             [@ EXCEPT !.pc = "open",
                                       !.record = UpdatedRecord(record, call.updates,
                                                                db.clock)]])

\* fs.writeFile opens the file: created if missing, truncated
StoreWriteOpen(c) ==
    /\ db.calls[c].pc = "open"
    /\ StoreStep([db EXCEPT !.file[db.calls[c].key] = Just(EmptyFile),
                            !.calls[c] = [@ EXCEPT !.pc = "write", !.orphan = FALSE]])

\* fs.writeFile writes the text from offset 0 of the file it opened
StoreWriteData(c) ==
    /\ db.calls[c].pc = "write"
    /\ LET call == db.calls[c]
       IN  IF call.orphan
           THEN StoreStep([db EXCEPT !.calls[c].pc = "close"])
           ELSE StoreStep([db EXCEPT
                    !.file[call.key] = Just(Overwrite(Val(@), call.record)),
                    !.lastWrite[call.key] = Just(call.record),
                    !.calls[c].pc = "close"])

\* fs.writeFile settles: the record is cached and returned
StoreWriteSettle(c) ==
    /\ db.calls[c].pc = "close"
    /\ LET call == db.calls[c]
           d1 == IF db.cacheEnabled THEN UpdateCache(db, call.key, call.record) ELSE db
       IN  StoreStep(Finish(d1, c, ReturnedRecord(call.record)))

\* fs.unlink removes the name; calls that have the file open keep writing to it
StoreUnlinkIo(c) ==
    /\ db.calls[c].pc = "unlink"
    /\ LET key == db.calls[c].key
       IN  IF db.file[key] = Nothing
           THEN StoreStep([db EXCEPT !.calls[c] =
                              [@ EXCEPT !.pc = "unlinkSettle", !.unlinked = FALSE]])
           ELSE StoreStep([db EXCEPT
                    !.file[key] = Nothing,
                    !.lastWrite[key] = Nothing,
                    !.calls = [c2 \in Slots |->
                        IF c2 = c
                        THEN [db.calls[c2] EXCEPT !.pc = "unlinkSettle", !.unlinked = TRUE]
                        ELSE IF db.calls[c2].key = key /\ db.calls[c2].pc \in {"write", "close"}
                        THEN [db.calls[c2] EXCEPT !.orphan = TRUE]
                        ELSE db.calls[c2]]])

\* delete after its unlink: ENOENT returns false, else the key leaves the cache
StoreUnlinkSettle(c) ==
    /\ db.calls[c].pc = "unlinkSettle"
    /\ LET call == db.calls[c]
       IN  IF ~call.unlinked
           THEN StoreStep(Finish(db, c, Returned("false")))
           ELSE StoreStep(Finish([db EXCEPT
                    !.cache = IF db.cacheEnabled THEN MapDelete(@, call.key) ELSE @,
                    !.deleted[call.key] =
                        \A c2 \in Slots :
                            Free(db.calls[c2]) \/ db.calls[c2].op # "create"],
                    c, Returned("true")))

StoreNext ==
    \/ \E c \in Slots : StoreStart(c)
    \/ \E c \in Slots : StoreReadIo(c)
    \/ \E c \in Slots : StoreReadSettle(c)
    \/ \E c \in Slots : StoreWriteOpen(c)
    \/ \E c \in Slots : StoreWriteData(c)
    \/ \E c \in Slots : StoreWriteSettle(c)
    \/ \E c \in Slots : StoreUnlinkIo(c)
    \/ \E c \in Slots : StoreUnlinkSettle(c)

StoreSpec == StoreInit /\ [][StoreNext]_vars

----------------------------------------------------------------------------
\* what reading the properties of a record gives: a property that is not there
\* reads as undefined
Reads(record) == [record EXCEPT !.note = IF @ = Absent THEN UndefinedValue ELSE @]

SameRecord(a, b) == Reads(a) = Reads(b)

StoreQuiet == \A c \in Slots : Free(db.calls[c])

\* the operation that ran last, when none has overlapped another
LastOp == db.calls[1]

C23_LastWriteWins ==
    (/\ db # Nothing
     /\ db.ran \subseteq {"create", "update"}
     /\ StoreQuiet) =>
        \A key \in StoreIds :
            IsJust(db.lastWrite[key]) =>
                /\ db.file[key] = Just(JsonFile(Val(db.lastWrite[key])))
                /\ FoundNow(db, key).kind = "record"
                /\ SameRecord(FoundNow(db, key).record, Val(db.lastWrite[key]))

\* C27: once delete(model, id) has returned true, and with no create for the id in
\* flight or later, every findById(model, id) that starts afterwards returns null,
\* whatever findById or update was in flight while the delete ran.
C27_DeletedStaysDeleted ==
    db # Nothing =>
        \A c \in Slots :
            (/\ db.calls[c].op = "findById" /\ db.calls[c].pc = "done"
             /\ db.calls[c].afterDelete
             /\ db.deleted[db.calls[c].key]) =>
                db.calls[c].result.kind = "null"

\* C28: after creates and updates, one after another, the record stored under an id
\* has that id in its id field and the createdAt it was created with, and an update
\* has changed only the fields it was given and updatedAt.
C28_IdAndCreatedAtKept ==
    (db # Nothing /\ db.sequential /\ StoreQuiet
     /\ db.ran \subseteq {"create", "update", "findById"}) =>
        \A key \in StoreIds :
            db.file[key] # Nothing =>
                /\ Val(db.file[key]).kind = "json"
                /\ Val(db.file[key]).record.id = key
                /\ (LastOp.op = "update" /\ LastOp.key = key
                    /\ LastOp.before.kind = "record") =>
                       /\ Val(db.file[key]).record.createdAt =
                              LastOp.before.record.createdAt
                       /\ LastOp.updates.note = Nothing =>
                              Reads(Val(db.file[key]).record).note =
                                  Reads(LastOp.before.record).note

====
